---- MODULE Spec2Model ----
(***************************************************************************)
(* Verification model of typescript-ai-agent.                              *)
(*                                                                         *)
(*   Spec        the AIAgent orchestration loop (agent/AIAgent.ts)         *)
(*   SpecCaller  the same loop together with a caller that holds the array *)
(*               returned by getMessages                                   *)
(*   SpecTools   the side-effecting native tools and the confirmation gate *)
(*   SpecDiff    the line diff of DiffViewer (utils/DiffViewer.ts)         *)
(*   SpecFormat  the unified-diff formatter of DiffViewer                  *)
(*   SpecShell   the spawned process and the timers of the shell tool      *)
(*   SpecMcp     tool discovery over MCP, the adapters it returns and the  *)
(*               agent main constructs from them (mcp/, index.ts)          *)
(*                                                                         *)
(* Texts are modelled as sequences of fragments: the text is the           *)
(* concatenation of the fragments, <<>> is the empty string.               *)
(***************************************************************************)
EXTENDS Integers, Sequences, FiniteSets, TLC

VARIABLES
    \* ---- AIAgent (agent/AIAgent.ts) ----
    maxIterations,  \* this.config.maxIterations after the constructor
    heap,           \* the Message objects, in allocation order
    messages,       \* this.messages: an array of references into heap
    pc,             \* where run() stands
    iterations,     \* the local counter of run()
    toolCalls,      \* the argument of executeToolCalls
    idx,            \* position of the for-of loop of executeToolCalls (1-based)
    executing,      \* indices of the calls whose tool.execute is in flight
    runResult,      \* value run() resolved with
    runError,       \* error run() rejected with
    nextCallId,     \* the completion service's next fresh tool-call id
    responses,      \* history: the completions received by the current run
    completions,    \* history: completion requests issued by the current run
    executedIds,    \* history: ids of the calls for which tool.execute was invoked
    raisedIds,      \* history: ids of the calls whose tool.execute rejected
    \* ---- a caller of AIAgent.getMessages ----
    returned,       \* the array the caller got from getMessages (references)
    views,          \* number of getMessages calls the caller made
    callerWrites,   \* number of writes the caller made through that array
    \* ---- confirmation handler (config/ConfirmationHandler.ts,
    \*      config/InteractiveConfirmationHandler.ts) ----
    handler,          \* which ConfirmationHandler the tools were constructed with
    isTTY,            \* process.stdin.isTTY
    alwaysApprove,    \* InteractiveConfirmationHandler.alwaysApprove
    alwaysDeny,       \* InteractiveConfirmationHandler.alwaysDeny
    consecutiveNulls, \* InteractiveConfirmationHandler.consecutiveNulls
    \* ---- native tools (tools/FileSystemTools.ts, tools/ShellCommandTool.ts) ----
    canWrite,         \* fileSystem.canWrite
    files,            \* the file system: path -> file
    toolPc,           \* where the execute() in progress stands
    curCall,          \* the tool and arguments of the execute() in progress
    callNo,           \* history: number of execute() calls started
    outcome,          \* history: the confirmation the current call received
    prompts,          \* history: menus shown during the current call
    toolResult,       \* what the last execute() resolved with
    toolRaised,       \* the last execute() rejected
    effects,          \* history: the writeFile and spawn calls made
    alwaysChosenAt,   \* history: number of the call in which Always was chosen
    denyChosenAt,     \* history: number of the call in which Deny was chosen
    lastChoice,       \* history: the choice last made at a menu of the current call
    lastIde,          \* history: what the IDE answered if that choice asked it
    invalidRun,       \* history: invalid inputs in a row in the current call
    \* ---- DiffViewer (utils/DiffViewer.ts) ----
    oldContent,       \* the oldContent argument: a text or undefined
    newContent,       \* the newContent argument: a text or undefined
    oldLines,         \* the oldLines argument of computeDiff
    newLines,         \* the newLines argument of computeDiff
    diffPc,           \* which DiffViewer functions have been applied
    diffLines,        \* what computeDiff(oldLines, newLines) returned
    diffLoops,        \* computeDiff(oldLines, newLines) does not return
    stats,            \* what computeStats(oldContent, newContent) returned
    lcsLines,         \* what computeLCS(oldLines, newLines) returned
    diffPasses,       \* history: the cursors of computeDiff before each pass
    fmtLines,         \* the diffLines argument of formatUnifiedDiff
    contextLines,     \* the contextLines argument of formatUnifiedDiff
    fmtPc,            \* formatUnifiedDiff has been applied
    chunks,           \* the chunks formatUnifiedDiff built, each an array of lines
    fmtText,          \* what formatUnifiedDiff returned
    \* ---- McpToolDiscovery, McpClient, McpToolAdapter (mcp/) and main ----
    mcpPc,            \* where discoverTools or an adapter's execute stands
    verbose,          \* the verbose argument of discoverTools
    requestId,        \* McpClient.requestId
    sent,             \* history: the JSON-RPC requests the client has sent
    probe,            \* history: how the liveness probe ended
    initAnswer,       \* history: the answer to the initialize request
    listAnswer,       \* history: the answer to the tools/list request
    discovered,       \* the names of the adapters discoverTools returned
    discoverRaised,   \* discoverTools rejected
    execName,         \* the adapter of the execute in progress (its name)
    execArgs,         \* the args of the execute in progress
    callAnswer,       \* history: the answer to the last tools/call request
    execResult,       \* what the last execute resolved with
    execRaised,       \* the last execute rejected
    agentTools,       \* config.tools of the agent main constructs (names)
    toolMap,          \* AIAgent.toolMap: entries in insertion order
    \* ---- ExecuteShellCommandTool.executeCommand (tools/ShellCommandTool.ts) ----
    shPc,             \* "start", "running" (promise pending) or "returned"
    now,              \* the time in seconds since the spawn
    shTimeout,        \* timeoutSeconds
    lifetime,         \* when the process exits by itself (0: it never does)
    ignoresTerm,      \* the process ignores SIGTERM
    procAlive,        \* the process is running
    killed,           \* proc.killed
    timedOut,         \* the local timedOut
    signals,          \* history: the signals sent with proc.kill
    timeoutHandle,    \* the outer timer: "none", "armed", "fired", "cleared"
    forceHandle,      \* the inner timer: "none", "armed", "fired"
    forceDue,         \* when the inner timer is due
    shResult          \* the ShellCommandResult the promise resolved with

agentVars == <<maxIterations, heap, messages, pc, iterations, toolCalls, idx,
               executing, runResult, runError, nextCallId, responses,
               completions, executedIds, raisedIds>>
callerVars == <<returned, views, callerWrites>>

gateVars == <<handler, isTTY, alwaysApprove, alwaysDeny, consecutiveNulls>>
toolVars == <<canWrite, files, toolPc, curCall, callNo, outcome, prompts, toolResult,
              toolRaised, effects, alwaysChosenAt, denyChosenAt, lastChoice, lastIde,
              invalidRun>>

diffVars == <<oldContent, newContent, oldLines, newLines, diffPc, diffLines, diffLoops,
              stats, lcsLines, diffPasses, fmtLines, contextLines, fmtPc, chunks, fmtText>>
fmtVars == <<fmtLines, contextLines, fmtPc, chunks, fmtText>>

mcpVars == <<mcpPc, verbose, requestId, sent, probe, initAnswer, listAnswer, discovered,
             discoverRaised, execName, execArgs, callAnswer, execResult, execRaised,
             agentTools, toolMap>>

shVars == <<shPc, now, shTimeout, lifetime, ignoresTerm, procAlive, killed, timedOut, signals,
            timeoutHandle, forceHandle, forceDue, shResult>>

vars == <<agentVars, callerVars, gateVars, toolVars, diffVars, mcpVars, shVars>>

\* what the steps of each component leave alone
nonAgentVars == <<callerVars, gateVars, toolVars, diffVars, mcpVars, shVars>>
nonToolVars == <<agentVars, callerVars, diffVars, mcpVars, shVars>>
nonDiffVars == <<agentVars, callerVars, gateVars, toolVars, mcpVars, shVars>>
nonMcpVars == <<agentVars, callerVars, gateVars, toolVars, diffVars, shVars>>
nonShVars == <<agentVars, callerVars, gateVars, toolVars, diffVars, mcpVars>>

(***************************************************************************)
(* Bounds of the model.                                                    *)
(***************************************************************************)
MaxMessages == 7          \* longest conversation explored
MaxToolCalls == 2         \* most tool calls carried by one assistant message
MaxConfigIterations == 2  \* largest explicitly configured maxIterations
MaxViewedMessages == 5    \* longest conversation explored together with a caller
MaxViews == 1             \* getMessages calls a caller makes
MaxCallerWrites == 1      \* writes a caller makes through a returned array
MaxCalls == 2             \* tool executions explored by SpecTools
MaxPrompts == 4           \* menus shown during one confirmation
MaxLines == 3             \* lines of a text handed to DiffViewer
MaxDiffLines == 5         \* diff lines handed to formatUnifiedDiff
MaxContextLines == 2      \* the contextLines handed to formatUnifiedDiff
MaxRequests == 4          \* JSON-RPC requests one McpClient sends
MaxRemoteTools == 2       \* tools in one tools/list answer
MaxShellTimeout == 2      \* the timeoutSeconds of a spawned command
MaxTime == 6              \* seconds the clock of a spawned command runs

(***************************************************************************)
(* Program constants.                                                      *)
(***************************************************************************)
DefaultMaxIterations == 20

(***************************************************************************)
(* Values                                                                  *)
(***************************************************************************)
NoId == 0
EmptyText == <<>>

\* an optional text (string | null) of the completion API
NullContent == [present |-> FALSE, text |-> EmptyText]
SomeContent(t) == [present |-> TRUE, text |-> t]

\* an optional tool_calls array (undefined | array) of the completion API
NoToolCalls == [present |-> FALSE, calls |-> <<>>]
SomeToolCalls(cs) == [present |-> TRUE, calls |-> cs]

\* config.tools of the agent under study: the names of its registered tools
ToolNames == {"read__file"}
\* names the model may request: the registered ones and an unregistered one
RequestedNames == ToolNames \cup {"foo"}
\* function.arguments payloads: a JSON document and a truncated one
ValidJson == {"{\"path\":\"/p\"}"}
ArgumentPayloads == ValidJson \cup {"{\"path"}
UserInputs == {"task"}
\* what a tool's execute may resolve with, and the messages it may reject with
ToolResults == {<<"File: /p">>}
ToolErrors == {"boom"}

Message(role, content, tcs, id) ==
    [role |-> role, content |-> content, tool_calls |-> tcs, tool_call_id |-> id]

\* the conversation as message values
Conversation == [i \in 1..Len(messages) |-> heap[messages[i]]]

(***************************************************************************)
(* AIAgent.constructor                                                     *)
(***************************************************************************)
\* maxIterations: config.maxIterations || 20  (cfg = 0 stands for undefined or 0)
ConfigMaxIterations(cfg) == IF cfg = 0 THEN DefaultMaxIterations ELSE cfg

SystemMessage == Message("system", <<"prompt">>, NoToolCalls, NoId)

(***************************************************************************)
(* AIAgent.run and AIAgent.executeToolCalls                                *)
(***************************************************************************)
\* while (iterations < this.config.maxIterations)
LoopContinuesStopsEarly(iter, max) == iter + 1 < max
LoopContinuesOffByOne(iter, max) == iter <= max
LoopContinues(iter, max) == iter < max

\* message.content || ''
AssistantContentNoDefault(c) == IF c.present THEN c.text ELSE <<"null">>
AssistantContent(c) == IF c.present /\ c.text # EmptyText THEN c.text ELSE EmptyText

\* message.tool_calls && message.tool_calls.length > 0
HasToolCallsNoLength(tcs) == tcs.present
HasToolCalls(tcs) == tcs.present /\ Len(tcs.calls) > 0

\* this.toolMap.get(name) is defined
ToolKnown(name) == name \in ToolNames

\* JSON.parse(arguments) returns
JsonParses(arguments) == arguments \in ValidJson

UserMessage(userInput) == Message("user", <<userInput>>, NoToolCalls, NoId)

AssistantMessage(m) ==
    Message("assistant", AssistantContent(m.content), m.tool_calls, NoId)

\* the message pushed for an unregistered tool name
NotFoundMessageNoName(call) ==
    Message("tool", <<"ERROR: Tool '", "' not found">>, NoToolCalls, call.id)
NotFoundMessage(call) ==
    Message("tool", <<"ERROR: Tool '", call.name, "' not found">>, NoToolCalls, call.id)

\* the message pushed in the try block
ResultMessageFirstId(calls, i, result) ==
    Message("tool", result, NoToolCalls, calls[1].id)
ResultMessage(calls, i, result) ==
    Message("tool", result, NoToolCalls, calls[i].id)

\* the message pushed in the catch block
ErrorMessageNoPrefix(call, err) ==
    Message("tool", <<err>>, NoToolCalls, call.id)
ErrorMessage(call, err) ==
    Message("tool", <<"ERROR: ", err>>, NoToolCalls, call.id)

\* this.messages.push(m): a fresh object, referenced from the end of the array
PushHeap(h, m) == Append(h, m)
PushRefsFresh(h, refs) == <<Len(h) + 1>>
PushRefs(h, refs) == Append(refs, Len(h) + 1)

\* The for-of loop of executeToolCalls from position i up to its next await
\* (tool.execute of a registered tool whose arguments parse) or its end.
\* started: the indices whose tool.execute this stretch has invoked.
RECURSIVE DispatchNoAwait(_, _, _, _, _)
DispatchNoAwait(h, refs, calls, i, started) ==
    IF i > Len(calls)
    THEN [heap |-> h, messages |-> refs, idx |-> i, await |-> FALSE, started |-> started]
    ELSE IF ~ToolKnown(calls[i].name)
    THEN DispatchNoAwait(PushHeap(h, NotFoundMessage(calls[i])), PushRefs(h, refs),
                         calls, i + 1, started)
    ELSE IF ~JsonParses(calls[i].arguments)
    THEN DispatchNoAwait(PushHeap(h, ErrorMessage(calls[i], "SyntaxError")),
                         PushRefs(h, refs), calls, i + 1, started)
    ELSE DispatchNoAwait(PushHeap(h, ResultMessage(calls, i, <<"[object Promise]">>)),
                         PushRefs(h, refs), calls, i + 1, started \cup {i})

RECURSIVE Dispatch(_, _, _, _, _)
Dispatch(h, refs, calls, i, started) ==
    IF i > Len(calls)
    THEN [heap |-> h, messages |-> refs, idx |-> i, await |-> FALSE, started |-> started]
    ELSE IF ~ToolKnown(calls[i].name)
    THEN Dispatch(PushHeap(h, NotFoundMessage(calls[i])), PushRefs(h, refs),
                  calls, i + 1, started)
    ELSE IF ~JsonParses(calls[i].arguments)
    THEN Dispatch(PushHeap(h, ErrorMessage(calls[i], "SyntaxError")),
                  PushRefs(h, refs), calls, i + 1, started)
    ELSE [heap |-> h, messages |-> refs, idx |-> i, await |-> TRUE,
          started |-> started \cup {i}]

\* the promise returned by run()
Unresolved == [done |-> FALSE, text |-> EmptyText]
Resolved(t) == [done |-> TRUE, text |-> t]

\* a completion without choices[0].message
NoChoice == [hasMessage |-> FALSE, content |-> NullContent, tool_calls |-> NoToolCalls]
Choice(c, tcs) == [hasMessage |-> TRUE, content |-> c, tool_calls |-> tcs]

\* the tool-call arrays the completion service may send: k calls with fresh ids
CallKinds == [name : RequestedNames, arguments : ArgumentPayloads]
CallArrays(firstId) ==
    UNION {{[i \in 1..k |-> [id |-> firstId + i - 1, name |-> f[i].name,
                             arguments |-> f[i].arguments]] :
                f \in [1..k -> CallKinds]} : k \in 1..MaxToolCalls}

\* the completions the service may resolve with
FinalChoices ==
    {Choice(c, tcs) : c \in {NullContent, SomeContent(EmptyText), SomeContent(<<"done">>)},
                      tcs \in {NoToolCalls, SomeToolCalls(<<>>)}}
ToolCallChoices(firstId) ==
    {Choice(c, SomeToolCalls(cs)) : c \in {NullContent, SomeContent(<<"thinking">>)},
                                    cs \in CallArrays(firstId)}
Completions(firstId) == {NoChoice} \cup FinalChoices \cup ToolCallChoices(firstId)

(***************************************************************************)
(* Initial state: a constructed agent, no run yet.                         *)
(***************************************************************************)
InitAgent ==
    /\ \E cfg \in 0..MaxConfigIterations : maxIterations = ConfigMaxIterations(cfg)
    /\ heap = <<SystemMessage>>
    /\ messages = <<1>>
    /\ pc = "idle"
    /\ iterations = 0
    /\ toolCalls = <<>>
    /\ idx = 0
    /\ executing = {}
    /\ runResult = Unresolved
    /\ runError = "none"
    /\ nextCallId = 1
    /\ responses = <<>>
    /\ completions = 0
    /\ executedIds = {}
    /\ raisedIds = {}

InitCaller ==
    /\ returned = <<>>
    /\ views = 0
    /\ callerWrites = 0

(***************************************************************************)
(* The head of the while loop of run(), reached with the counter at iter:  *)
(* either the next completion request is issued or run() throws.           *)
(***************************************************************************)
LoopHead(iter, issued) ==
    IF LoopContinues(iter, maxIterations)
    THEN /\ iterations' = iter + 1
         /\ completions' = issued + 1
         /\ pc' = "awaitCompletion"
         /\ runError' = "none"
    ELSE /\ iterations' = iter
         /\ completions' = issued
         /\ pc' = "failed"
         /\ runError' = "MaxIterations"

\* executeToolCalls continues from the dispatch result d over the array calls
Continue(d, calls) ==
    /\ heap' = d.heap
    /\ messages' = d.messages
    /\ idx' = d.idx
    /\ executing' = d.started
    /\ executedIds' = executedIds \cup {calls[i].id : i \in d.started}
    /\ IF d.await
       THEN /\ pc' = "awaitTool"
            /\ UNCHANGED <<iterations, completions, runError>>
       ELSE LoopHead(iterations, completions)

\* run(userInput) is called on an agent with no run in progress
Run(userInput) ==
    /\ pc \in {"idle", "returned", "failed"}
    /\ Len(messages) < MaxMessages
    /\ heap' = PushHeap(heap, UserMessage(userInput))
    /\ messages' = PushRefs(heap, messages)
    /\ runResult' = Unresolved
    /\ responses' = <<>>
    /\ LoopHead(0, 0)
    /\ UNCHANGED <<maxIterations, toolCalls, idx, executing, nextCallId, executedIds,
                   raisedIds>>
    /\ UNCHANGED nonAgentVars

\* getCompletion() resolves with the completion resp
CompletionResolves(resp) ==
    /\ Len(messages) + 1 + Len(resp.tool_calls.calls) <= MaxMessages
    /\ responses' = Append(responses, resp)
    /\ nextCallId' = nextCallId + Len(resp.tool_calls.calls)
    /\ IF ~resp.hasMessage
       THEN /\ pc' = "failed"
            /\ runError' = "NoMessage"
            /\ UNCHANGED <<heap, messages, toolCalls, idx, executing, runResult,
                           iterations, completions, executedIds>>
       ELSE IF HasToolCalls(resp.tool_calls)
       THEN /\ toolCalls' = resp.tool_calls.calls
            /\ Continue(Dispatch(PushHeap(heap, AssistantMessage(resp)),
                                 PushRefs(heap, messages), resp.tool_calls.calls, 1, {}),
                        resp.tool_calls.calls)
            /\ UNCHANGED runResult
       ELSE /\ heap' = PushHeap(heap, AssistantMessage(resp))
            /\ messages' = PushRefs(heap, messages)
            /\ pc' = "returned"
            /\ runResult' = Resolved(AssistantContent(resp.content))
            /\ UNCHANGED <<toolCalls, idx, executing, runError, iterations,
                           completions, executedIds>>
    /\ UNCHANGED <<maxIterations, raisedIds>>
    /\ UNCHANGED nonAgentVars

\* getCompletion() rejects: the completion service's error leaves run()
CompletionRejects ==
    /\ pc = "awaitCompletion"
    /\ pc' = "failed"
    /\ runError' = "CompletionService"
    /\ UNCHANGED <<maxIterations, heap, messages, iterations, toolCalls, idx, executing,
                   runResult, nextCallId, responses, completions, executedIds,
                   raisedIds>>
    /\ UNCHANGED nonAgentVars

\* tool.execute(args) of the call in flight resolves with result
ToolResolves(result) ==
    /\ pc = "awaitTool"
    /\ Continue(Dispatch(PushHeap(heap, ResultMessage(toolCalls, idx, result)),
                         PushRefs(heap, messages), toolCalls, idx + 1, {}),
                toolCalls)
    /\ UNCHANGED <<maxIterations, toolCalls, runResult, nextCallId, responses, raisedIds>>
    /\ UNCHANGED nonAgentVars

\* tool.execute(args) of the call in flight rejects with an error whose message is err
ToolRejects(err) ==
    /\ pc = "awaitTool"
    /\ Continue(Dispatch(PushHeap(heap, ErrorMessage(toolCalls[idx], err)),
                         PushRefs(heap, messages), toolCalls, idx + 1, {}),
                toolCalls)
    /\ raisedIds' = raisedIds \cup {toolCalls[idx].id}
    /\ UNCHANGED <<maxIterations, toolCalls, runResult, nextCallId, responses>>
    /\ UNCHANGED nonAgentVars

NextAgent ==
    \/ \E u \in UserInputs : Run(u)
    \/ /\ pc = "awaitCompletion"
       /\ \E resp \in Completions(nextCallId) : CompletionResolves(resp)
    \/ CompletionRejects
    \/ \E r \in ToolResults : ToolResolves(r)
    \/ \E e \in ToolErrors : ToolRejects(e)

(***************************************************************************)
(* Properties of the orchestration loop (checked under Spec).              *)
(***************************************************************************)
\* the optional tool-call array holds at least one request
CarriesToolCalls(tcs) == tcs.present /\ tcs.calls # <<>>

\* positions of the assistant messages that carry tool calls
BatchPositions ==
    {p \in 1..Len(messages) :
        Conversation[p].role = "assistant" /\ CarriesToolCalls(Conversation[p].tool_calls)}

CallsAt(p) == Conversation[p].tool_calls.calls

\* the batch at p is the one executeToolCalls is still working on
InProgress(p) ==
    /\ pc = "awaitTool"
    /\ CallsAt(p) = toolCalls
    /\ p + idx - 1 = Len(messages)

\* number of calls of the batch at p that have been answered
Answered(p) == IF InProgress(p) THEN idx - 1 ELSE Len(CallsAt(p))

\* the loop of executeToolCalls has dealt with the i-th call of the batch at p
Reached(p, i) == ~InProgress(p) \/ i < idx

IsErrorText(t) == Len(t) > 0 /\ t[1] = "ERROR: "

\* C1: every assistant message with k >= 1 tool calls is directly followed by
\* its tool-result messages, the i-th carrying the id of the i-th request; when
\* the next completion request is issued (and whenever the batch is no longer
\* being dispatched) there are exactly k of them, whatever the calls did.
C1_ToolResultsFollowRequests ==
    /\ \A p \in BatchPositions :
          /\ Len(messages) >= p + Answered(p)
          /\ \A i \in 1..Answered(p) :
                /\ Conversation[p + i].role = "tool"
                /\ Conversation[p + i].tool_call_id = CallsAt(p)[i].id
          /\ Len(messages) > p + Answered(p) => Conversation[p + Answered(p) + 1].role # "tool"
    /\ \A q \in 1..Len(messages) :
          Conversation[q].role = "tool" =>
              \E p \in BatchPositions : p < q /\ q <= p + Len(CallsAt(p))
    /\ pc = "awaitCompletion" => \A p \in BatchPositions : ~InProgress(p)

\* a run answered a batch of two: an unknown name, then a successful execution
C1_Witness ==
    /\ pc = "awaitCompletion"
    /\ Len(toolCalls) = 2
    /\ ~ToolKnown(toolCalls[1].name)
    /\ toolCalls[2].id \in executedIds \ raisedIds
    /\ Conversation[Len(messages)].tool_call_id = toolCalls[2].id
    /\ Conversation[Len(messages) - 1].tool_call_id = toolCalls[1].id

AllHaveToolCalls(rs) ==
    \A i \in 1..Len(rs) : rs[i].hasMessage /\ CarriesToolCalls(rs[i].tool_calls)

\* C2: one call of run issues at most maxIterations completion requests, and
\* once maxIterations responses have each carried a tool call, run does not
\* return and issues no further request: when the last batch is dispatched it
\* fails with the iteration-limit error.
C2_IterationBound ==
    /\ completions <= maxIterations
    /\ (Len(responses) = maxIterations /\ AllHaveToolCalls(responses)) =>
          \/ pc = "awaitTool"
          \/ pc = "failed" /\ runError = "MaxIterations" /\ ~runResult.done

C2_Witness ==
    /\ maxIterations = 2
    /\ pc = "failed"
    /\ runError = "MaxIterations"
    /\ completions = 2

\* the text of a completion message: the empty text when it has none
TextOf(resp) == IF resp.content.present THEN resp.content.text ELSE EmptyText

C3_ReturnedState ==
    pc = "returned" =>
        /\ runResult.done
        /\ Len(responses) >= 1
        /\ responses[Len(responses)].hasMessage
        /\ ~CarriesToolCalls(responses[Len(responses)].tool_calls)
        /\ runResult.text = TextOf(responses[Len(responses)])
        /\ AllHaveToolCalls(SubSeq(responses, 1, Len(responses) - 1))
        /\ completions = Len(responses)
        /\ executing = {}

\* a step taken from DONE is the start of another run: nothing of the finished
\* run continues
C3_ReturnedStep ==
    pc = "returned" =>
        \/ /\ pc' = "returned"
           /\ completions' = completions
           /\ executedIds' = executedIds
           /\ runResult' = runResult
        \/ /\ responses' = <<>>
           /\ Conversation'[Len(messages')].role = "user"
           /\ executedIds' = executedIds

\* C3: run returns exactly the text of the first assistant response without
\* tool calls (the empty text when it has none), and afterwards that run
\* issues no completion request and executes no tool.
C3_ReturnsFirstFinalText == [](C3_ReturnedState) /\ [][C3_ReturnedStep]_vars

\* run returned the empty text of a content-less final response after a tool round
C3_Witness ==
    /\ pc = "returned"
    /\ Len(responses) = 2
    /\ ~responses[2].content.present
    /\ runResult = Resolved(EmptyText)

\* the call failed: its arguments do not parse, or its execute raised
CallFailed(call) ==
    /\ ToolKnown(call.name)
    /\ \/ ~JsonParses(call.arguments)
       \/ call.id \in raisedIds

\* after the batch at p, run went on: to the next iteration or the iteration limit
WentOn(p) ==
    \/ Len(messages) > p + Len(CallsAt(p))
    \/ pc = "awaitCompletion"
    \/ pc = "failed" /\ runError \in {"MaxIterations", "NoMessage", "CompletionService"}

\* C4: a call whose arguments do not parse or whose execute raises gets one
\* tool-result message with an error indication; the remaining calls of the
\* message are dispatched and the run goes on; run never fails with the tool's
\* error.
C4_ToolFailureContained ==
    /\ \A p \in BatchPositions : \A i \in 1..Len(CallsAt(p)) :
          (Reached(p, i) /\ CallFailed(CallsAt(p)[i])) =>
              /\ Len(messages) >= p + i
              /\ Conversation[p + i].role = "tool"
              /\ Conversation[p + i].tool_call_id = CallsAt(p)[i].id
              /\ IsErrorText(Conversation[p + i].content)
              /\ i < Len(CallsAt(p)) =>
                    \/ Len(messages) >= p + i + 1
                    \/ InProgress(p) /\ idx = i + 1
              /\ i = Len(CallsAt(p)) => WentOn(p)
    /\ pc = "failed" => runError \in {"MaxIterations", "NoMessage", "CompletionService"}
    /\ raisedIds \subseteq executedIds

\* the first call of a batch raised, the second was executed, and the next
\* completion was requested
C4_Witness ==
    /\ pc = "awaitCompletion"
    /\ Len(toolCalls) = 2
    /\ toolCalls[1].id \in raisedIds
    /\ toolCalls[2].id \in executedIds \ raisedIds
    /\ Len(responses) = 1

\* C5: a call of an unregistered name gets a correlated tool-result message
\* that holds the name and the not-found text, no tool is executed for it,
\* and the run goes on with the remaining calls and the next iteration.
C5_UnknownToolReported ==
    \A p \in BatchPositions : \A i \in 1..Len(CallsAt(p)) :
        (Reached(p, i) /\ ~ToolKnown(CallsAt(p)[i].name)) =>
            /\ Len(messages) >= p + i
            /\ Conversation[p + i].role = "tool"
            /\ Conversation[p + i].tool_call_id = CallsAt(p)[i].id
            /\ Conversation[p + i].content =
                  <<"ERROR: Tool '", CallsAt(p)[i].name, "' not found">>
            /\ CallsAt(p)[i].id \notin executedIds
            /\ i < Len(CallsAt(p)) =>
                  \/ Len(messages) >= p + i + 1
                  \/ InProgress(p) /\ idx = i + 1
            /\ i = Len(CallsAt(p)) => WentOn(p)

\* "foo" was requested first, the registered tool after it is being executed
C5_Witness ==
    /\ pc = "awaitTool"
    /\ Len(toolCalls) = 2
    /\ toolCalls[1].name = "foo"
    /\ idx = 2
    /\ Conversation[Len(messages)].content = <<"ERROR: Tool '", "foo", "' not found">>

\* C6 as stated: the iteration limit is the only error run raises of its own
\* (an error of the completion service passes through run unchanged).
C6_OnlyIterationLimit ==
    pc = "failed" => runError \in {"MaxIterations", "CompletionService"}

\* C6 amended: run raises two errors of its own, the iteration limit (after
\* maxIterations responses that all carried tool calls) and "No message in
\* completion" (exactly when a completion has no message); every other error
\* that leaves run is the completion service's.
C6_OwnErrors ==
    /\ pc = "failed" => runError \in {"MaxIterations", "NoMessage", "CompletionService"}
    /\ pc # "failed" => runError = "none"
    /\ (pc = "failed" /\ runError = "MaxIterations") <=>
          (pc \notin {"awaitTool", "idle"} /\ Len(responses) = maxIterations
             /\ AllHaveToolCalls(responses))
    /\ (pc = "failed" /\ runError = "NoMessage") <=>
          (Len(responses) >= 1 /\ ~responses[Len(responses)].hasMessage)

C6_Witness ==
    /\ pc = "failed"
    /\ runError = "NoMessage"
    /\ Len(responses) = 2

\* C8: at most one tool execution is in flight, it is the call the loop stands
\* at, and the results of all calls requested before it are already appended.
C8_SequentialDispatch ==
    /\ Cardinality(executing) <= 1
    /\ \A i \in executing :
          /\ pc = "awaitTool"
          /\ i = idx
          /\ Len(messages) >= i
          /\ Conversation[Len(messages) - (i - 1)].role = "assistant"
          /\ Conversation[Len(messages) - (i - 1)].tool_calls.calls = toolCalls
          /\ \A j \in 1..(i - 1) :
                Conversation[Len(messages) - (i - 1) + j].tool_call_id = toolCalls[j].id
    /\ pc = "awaitTool" => executing = {idx}

\* the second call of a batch is executing after the first one's execution
\* delivered its result
C8_Witness ==
    /\ executing = {2}
    /\ toolCalls[1].id \in executedIds
    /\ Conversation[Len(messages)].tool_call_id = toolCalls[1].id
    /\ Conversation[Len(messages)].content = <<"File: /p">>

(***************************************************************************)
(* AIAgent.getMessages and a caller that keeps the returned array.         *)
(***************************************************************************)
\* [...this.messages]: a new array holding the same references
GetMessagesCopy(refs) == refs

\* const view = agent.getMessages()
GetMessages ==
    /\ views < MaxViews
    /\ returned' = GetMessagesCopy(messages)
    /\ views' = views + 1
    /\ UNCHANGED callerWrites
    /\ UNCHANGED <<agentVars, gateVars, toolVars, diffVars, mcpVars, shVars>>

\* view.pop(): the caller's own array shrinks
CallerPops ==
    /\ returned # <<>>
    /\ returned' = SubSeq(returned, 1, Len(returned) - 1)
    /\ UNCHANGED <<views, callerWrites>>
    /\ UNCHANGED <<agentVars, gateVars, toolVars, diffVars, mcpVars, shVars>>

\* view[i].content = text: a write to the Message object the array refers to
CallerWritesContent(i, text) ==
    /\ callerWrites < MaxCallerWrites
    /\ i \in 1..Len(returned)
    /\ heap' = [heap EXCEPT ![returned[i]].content = text]
    /\ callerWrites' = callerWrites + 1
    /\ UNCHANGED <<returned, views>>
    /\ UNCHANGED <<maxIterations, messages, pc, iterations, toolCalls, idx, executing,
                   runResult, runError, nextCallId, responses, completions,
                   executedIds, raisedIds>>
    /\ UNCHANGED <<gateVars, toolVars, diffVars, mcpVars, shVars>>

NextCaller ==
    \/ GetMessages
    \/ CallerPops
    \/ \E i \in 1..MaxMessages : CallerWritesContent(i, <<"edited">>)

\* the agent's steps, explored up to conversations of MaxViewedMessages messages
NextAgentViewed == NextAgent /\ Len(messages') <= MaxViewedMessages

IsPrefix(a, b) == Len(a) <= Len(b) /\ \A i \in 1..Len(a) : a[i] = b[i]

\* C9: the conversation is append-only: over every step of the agent and of a
\* caller of getMessages, the earlier message sequence is a prefix of the
\* later one.
C9_AppendOnly == [][IsPrefix(Conversation, Conversation')]_vars

(***************************************************************************)
(* ToolValidation (validation/ToolValidation.ts).  Paths and commands are  *)
(* sequences of characters; an argument may be missing from the payload.   *)
(***************************************************************************)
Absent == [present |-> FALSE, val |-> <<>>]
Given(v) == [present |-> TRUE, val |-> v]

Whitespace == {" "}

ValidationValid == [isValid |-> TRUE, errorMessage |-> <<>>]
ValidationInvalid(msg) == [isValid |-> FALSE, errorMessage |-> <<msg>>]

\* s.trim().length === 0
TrimIsEmpty(s) == \A i \in 1..Len(s) : s[i] \in Whitespace

\* s.includes('..')
IncludesDotDot(s) == \E i \in 1..(Len(s) - 1) : s[i] = "." /\ s[i + 1] = "."

\* ToolValidation.validatePath
ValidatePath(path) ==
    IF ~path.present \/ path.val = <<>> \/ TrimIsEmpty(path.val)
    THEN ValidationInvalid("Path cannot be empty or blank")
    ELSE IF IncludesDotDot(path.val)
    THEN ValidationInvalid("Path traversal not allowed (path contains \"..\")")
    ELSE ValidationValid

\* const MAX_SIZE = 1_000_000
MAX_SIZE == 1000000

\* ToolValidation.validateContent: a content is its length and its text
ValidateContent(content) ==
    IF content.val.length = 0
    THEN ValidationInvalid("Content cannot be empty")
    ELSE IF content.val.length > MAX_SIZE
    THEN ValidationInvalid("Content exceeds maximum size")
    ELSE ValidationValid

\* ToolValidation.validateCommand
ValidateCommand(command) ==
    IF ~command.present \/ command.val = <<>> \/ TrimIsEmpty(command.val)
    THEN ValidationInvalid("Command cannot be empty or blank")
    ELSE ValidationValid

MaxTimeoutSeconds == 600
DefaultTimeoutSeconds == 30

ValidateTimeoutAlwaysValid(timeoutSeconds) == ValidationValid

\* ToolValidation.validateTimeout
ValidateTimeout(timeoutSeconds) ==
    IF timeoutSeconds <= 0
    THEN ValidationInvalid("Timeout must be greater than 0")
    ELSE IF timeoutSeconds > MaxTimeoutSeconds
    THEN ValidationInvalid("Timeout cannot exceed 600 seconds (10 minutes)")
    ELSE ValidationValid

(***************************************************************************)
(* FileWriteConfirmation and the confirmation handlers.                    *)
(***************************************************************************)
Confirmations == {"approved", "rejected", "error"}

\* FileWriteConfirmation.isApproved
IsApprovedOrError(confirmation) == confirmation # "rejected"
IsApproved(confirmation) == confirmation = "approved"

\* FileWriteConfirmation.isError
IsError(confirmation) == confirmation = "error"

\* the handlers main() can construct, and any other implementation of the
\* ConfirmationHandler interface ("custom"), which may answer with each variant
Handlers == {"brave", "safe", "interactive", "custom"}

\* InteractiveMenu: the Choice enum, and null for an input that does not parse
Choices == {"YES", "NO", "ALWAYS", "DENY", "VIEW", "IDE", "HELP"}
NullChoice == "null"

\* String.prototype.toLowerCase on the inputs of the model
ToLowerCase(input) ==
    CASE input = "Y" -> "y"
      [] input = "Always" -> "always"
      [] OTHER -> input

\* InteractiveMenu.parseChoice
ParseChoice(input) ==
    CASE ToLowerCase(input) \in {"y", "yes"} -> "YES"
      [] ToLowerCase(input) \in {"n", "no"} -> "NO"
      [] ToLowerCase(input) \in {"a", "always"} -> "ALWAYS"
      [] ToLowerCase(input) \in {"d", "deny"} -> "DENY"
      [] ToLowerCase(input) \in {"v", "view"} -> "VIEW"
      [] ToLowerCase(input) \in {"i", "ide"} -> "IDE"
      [] ToLowerCase(input) \in {"?", "help"} -> "HELP"
      [] OTHER -> NullChoice

\* what the user may type at a menu
MenuInputs == {"Y", "n", "Always", "d", "v", "i", "?", "x", ""}

\* const MAX_CONSECUTIVE_NULLS = 3
MAX_CONSECUTIVE_NULLS == 3

\* IDEDiffApproval: the installation is not found (isIntelliJAvailable is
\* false), or showIntelliJDiffForApproval answers
IdeAnswers == {"notFound", "APPROVED", "REJECTED", "IDE_NOT_AVAILABLE"}

\* InteractiveConfirmationHandler.tryIDEApproval: a confirmation, or "none" (null)
TryIDEApprovalUnavailableApproves(ide) ==
    CASE ide = "APPROVED" -> "approved"
      [] ide = "REJECTED" -> "rejected"
      [] ide = "IDE_NOT_AVAILABLE" -> "approved"
      [] OTHER -> "none"
TryIDEApproval(ide) ==
    CASE ide = "APPROVED" -> "approved"
      [] ide = "REJECTED" -> "rejected"
      [] OTHER -> "none"

\* the state of an InteractiveConfirmationHandler
GateState(aa, ad, nulls) == [alwaysApprove |-> aa, alwaysDeny |-> ad, consecutiveNulls |-> nulls]

\* The checks both request methods make before they prompt: a confirmation,
\* or "prompt" when the menu is to be shown.
GateEntryIgnoresAlways(g, tty) ==
    IF g.alwaysDeny THEN "rejected"
    ELSE IF ~tty THEN "approved"
    ELSE "prompt"
GateEntryTtyFirst(g, tty) ==
    IF ~tty THEN "approved"
    ELSE IF g.alwaysDeny THEN "rejected"
    ELSE IF g.alwaysApprove THEN "approved"
    ELSE "prompt"
GateEntryNoTtyCheck(g, tty) ==
    IF g.alwaysDeny THEN "rejected"
    ELSE IF g.alwaysApprove THEN "approved"
    ELSE "prompt"
GateEntryAlwaysPrompts(g, tty) == IF ~tty THEN "approved" ELSE "prompt"
GateEntry(g, tty) ==
    IF g.alwaysDeny THEN "rejected"
    ELSE IF g.alwaysApprove THEN "approved"
    ELSE IF ~tty THEN "approved"
    ELSE "prompt"

\* One pass of the while loop of getUserChoice on the parsed choice: the new
\* handler state and the confirmation returned ("none": the loop goes round).
GetUserChoicePassNoLimit(g, choice, ide) ==
    IF choice = NullChoice
    THEN [gate |-> [g EXCEPT !.consecutiveNulls = @ + 1], result |-> "none"]
    ELSE CASE choice = "YES" ->
                [gate |-> [g EXCEPT !.consecutiveNulls = 0], result |-> "approved"]
           [] choice = "NO" ->
                [gate |-> [g EXCEPT !.consecutiveNulls = 0], result |-> "rejected"]
           [] choice = "ALWAYS" ->
                [gate |-> [g EXCEPT !.consecutiveNulls = 0, !.alwaysApprove = TRUE],
                 result |-> "approved"]
           [] choice = "DENY" ->
                [gate |-> [g EXCEPT !.consecutiveNulls = 0, !.alwaysDeny = TRUE],
                 result |-> "rejected"]
           [] choice = "IDE" ->
                [gate |-> [g EXCEPT !.consecutiveNulls = 0], result |-> TryIDEApproval(ide)]
           [] OTHER ->
                [gate |-> [g EXCEPT !.consecutiveNulls = 0], result |-> "none"]
GetUserChoicePass(g, choice, ide) ==
    IF choice = NullChoice
    THEN [gate |-> [g EXCEPT !.consecutiveNulls = @ + 1],
          result |-> IF g.consecutiveNulls + 1 >= MAX_CONSECUTIVE_NULLS
                     THEN "rejected" ELSE "none"]
    ELSE CASE choice = "YES" ->
                [gate |-> [g EXCEPT !.consecutiveNulls = 0], result |-> "approved"]
           [] choice = "NO" ->
                [gate |-> [g EXCEPT !.consecutiveNulls = 0], result |-> "rejected"]
           [] choice = "ALWAYS" ->
                [gate |-> [g EXCEPT !.consecutiveNulls = 0, !.alwaysApprove = TRUE],
                 result |-> "approved"]
           [] choice = "DENY" ->
                [gate |-> [g EXCEPT !.consecutiveNulls = 0, !.alwaysDeny = TRUE],
                 result |-> "rejected"]
           [] choice = "IDE" ->
                [gate |-> [g EXCEPT !.consecutiveNulls = 0], result |-> TryIDEApproval(ide)]
           [] OTHER ->
                [gate |-> [g EXCEPT !.consecutiveNulls = 0], result |-> "none"]

\* One pass of the while loop of getUserChoiceForCommand.
GetUserChoiceForCommandPassYesSticks(g, choice) ==
    CASE choice = "YES" -> [gate |-> [g EXCEPT !.alwaysApprove = TRUE], result |-> "approved"]
      [] choice = "NO" -> [gate |-> g, result |-> "rejected"]
      [] choice = "ALWAYS" -> [gate |-> [g EXCEPT !.alwaysApprove = TRUE], result |-> "approved"]
      [] choice = "DENY" -> [gate |-> [g EXCEPT !.alwaysDeny = TRUE], result |-> "rejected"]
      [] OTHER -> [gate |-> g, result |-> "none"]
GetUserChoiceForCommandPass(g, choice) ==
    CASE choice = "YES" -> [gate |-> g, result |-> "approved"]
      [] choice = "NO" -> [gate |-> g, result |-> "rejected"]
      [] choice = "ALWAYS" -> [gate |-> [g EXCEPT !.alwaysApprove = TRUE], result |-> "approved"]
      [] choice = "DENY" -> [gate |-> [g EXCEPT !.alwaysDeny = TRUE], result |-> "rejected"]
      [] OTHER -> [gate |-> g, result |-> "none"]

(***************************************************************************)
(* CreateFileTool, EditFileTool (tools/FileSystemTools.ts) and             *)
(* ExecuteShellCommandTool (tools/ShellCommandTool.ts).                    *)
(***************************************************************************)
AbsentNumber == [present |-> FALSE, val |-> 0]
AbsentContent == [present |-> FALSE, val |-> [length |-> 0, text |-> ""]]
NoFile == [exists |-> FALSE, content |-> [length |-> 0, text |-> ""]]
FileWith(content) == [exists |-> TRUE, content |-> content]

\* the argument payloads the model may send to the tools
PathArgs == {Absent, Given(<<" ">>), Given(<<".", ".", "/", "x">>), Given(<<"/", "a">>)}
ContentArgs == {AbsentContent,
                Given([length |-> 0, text |-> ""]),
                Given([length |-> 5, text |-> "fresh"]),
                Given([length |-> MAX_SIZE + 1, text |-> "huge"])}
CommandArgs == {Absent, Given(<<" ">>), Given(<<"l", "s">>)}
TimeoutArgs == {AbsentNumber, Given(0), Given(DefaultTimeoutSeconds),
                Given(MaxTimeoutSeconds + 1)}
\* the paths of the file system of the model
FilePaths == {<<"/", "a">>}

FileToolCalls ==
    [tool : {"create__file", "edit__file"}, path : PathArgs, content : ContentArgs,
     command : {Absent}, timeoutSeconds : {AbsentNumber}]
ShellToolCalls ==
    [tool : {"execute__shell_command"}, path : {Absent}, content : {AbsentContent},
     command : CommandArgs, timeoutSeconds : TimeoutArgs]
NoCall == [tool |-> "none", path |-> Absent, content |-> AbsentContent,
           command |-> Absent, timeoutSeconds |-> AbsentNumber]

Return(text) == [kind |-> "return", text |-> text]
Raise == [kind |-> "raise", text |-> <<>>]
Confirm == [kind |-> "confirm", text |-> <<>>]

\* CreateFileTool.execute and EditFileTool.execute up to the confirmation
\* request (validateContent reads content.length: a missing content raises)
FileToolBeforeConfirmation(c, cw, fs) ==
    IF ~cw
    THEN Return(<<"ERROR: ", "Write operations not allowed (read-only file system)">>)
    ELSE IF ~ValidatePath(c.path).isValid
    THEN Return(<<"ERROR: ">> \o ValidatePath(c.path).errorMessage)
    ELSE IF ~c.content.present
    THEN Raise
    ELSE IF ~ValidateContent(c.content).isValid
    THEN Return(<<"ERROR: ">> \o ValidateContent(c.content).errorMessage)
    ELSE IF c.tool = "edit__file" /\ ~fs[c.path.val].exists
    THEN Return(<<"ERROR: File '">> \o c.path.val
                    \o <<"' not found. Use create__file for new files.">>)
    ELSE Confirm

\* args.timeoutSeconds ?? 30
TimeoutOf(c) == IF c.timeoutSeconds.present THEN c.timeoutSeconds.val
                ELSE DefaultTimeoutSeconds

\* ExecuteShellCommandTool.execute up to the confirmation request
ShellToolBeforeConfirmation(c) ==
    IF ~ValidateCommand(c.command).isValid
    THEN Return(<<"ERROR: ">> \o ValidateCommand(c.command).errorMessage)
    ELSE IF ~ValidateTimeout(TimeoutOf(c)).isValid
    THEN Return(<<"ERROR: ">> \o ValidateTimeout(TimeoutOf(c)).errorMessage)
    ELSE Confirm

BeforeConfirmation(c, cw, fs) ==
    IF c.tool = "execute__shell_command"
    THEN ShellToolBeforeConfirmation(c)
    ELSE FileToolBeforeConfirmation(c, cw, fs)

\* what execute returns when the confirmation is not the approved one
NotApprovedResult(c, confirmation) ==
    IF IsError(confirmation)
    THEN <<"ERROR: ", "confirmation failed">>
    ELSE CASE c.tool = "create__file" ->
                <<"REJECTED: File creation cancelled by user for '">> \o c.path.val \o <<"'">>
           [] c.tool = "edit__file" ->
                <<"REJECTED: File edit cancelled by user for '">> \o c.path.val \o <<"'">>
           [] OTHER ->
                <<"REJECTED: Shell command execution cancelled by user: ">> \o c.command.val

\* what the file tools return after fileSystem.writeFile
WriteResult(c, ok) ==
    CASE c.tool = "create__file" /\ ok ->
            <<"SUCCESS: Created file '">> \o c.path.val \o <<"'">>
      [] c.tool = "create__file" /\ ~ok ->
            <<"ERROR: Failed to create file '">> \o c.path.val \o <<"'">>
      [] c.tool = "edit__file" /\ ok ->
            <<"SUCCESS: Edited file '">> \o c.path.val \o <<"'">>
      [] OTHER ->
            <<"ERROR: Failed to edit file '">> \o c.path.val \o <<"'">>

\* how the spawned process may end: ShellCommandResult without the output
ShellResults ==
    {[exited |-> TRUE, exitCode |-> 0, timedOut |-> FALSE],
     [exited |-> TRUE, exitCode |-> 1, timedOut |-> FALSE],
     [exited |-> FALSE, exitCode |-> 0, timedOut |-> TRUE],
     [exited |-> FALSE, exitCode |-> 0, timedOut |-> FALSE]}

\* ExecuteShellCommandTool.formatResult
FormatResult(c, r) ==
    <<"Command: ">> \o c.command.val \o
        (IF r.timedOut THEN <<"Status: TIMED OUT">>
         ELSE IF r.exited /\ r.exitCode = 0 THEN <<"Status: SUCCESS (exit code: 0)">>
         ELSE <<"Status: FAILED">>)

\* the answers the handler in use gives before any menu: a confirmation, or
\* "prompt" when the interactive handler shows its menu
HandlerAnswers(h, g, tty) ==
    CASE h \in {"brave", "safe"} -> {"approved"}
      [] h = "interactive" -> {GateEntry(g, tty)}
      [] OTHER -> Confirmations

Gate == GateState(alwaysApprove, alwaysDeny, consecutiveNulls)

SetGate(g) ==
    /\ alwaysApprove' = g.alwaysApprove
    /\ alwaysDeny' = g.alwaysDeny
    /\ consecutiveNulls' = g.consecutiveNulls

\* execute receives the confirmation: it goes on to its effect or returns
Settle(c, confirmation) ==
    /\ outcome' = confirmation
    /\ toolRaised' = FALSE
    /\ IF IsApproved(confirmation)
       THEN toolPc' = "approved" /\ toolResult' = <<>>
       ELSE toolPc' = "done" /\ toolResult' = NotApprovedResult(c, confirmation)

\* tool.execute(args) is called; the tools are called one at a time.  tty is
\* what process.stdin.isTTY reads during this call.
Execute(c, tty) ==
    /\ toolPc \in {"idle", "done"}
    /\ callNo < MaxCalls
    /\ callNo' = callNo + 1
    /\ curCall' = c
    /\ isTTY' = tty
    /\ lastChoice' = "none" /\ lastIde' = "none" /\ invalidRun' = 0
    /\ LET b == BeforeConfirmation(c, canWrite, files) IN
         CASE b.kind = "return" ->
                /\ toolPc' = "done" /\ toolResult' = b.text /\ toolRaised' = FALSE
                /\ outcome' = "none" /\ prompts' = 0
           [] b.kind = "raise" ->
                /\ toolPc' = "done" /\ toolResult' = <<>> /\ toolRaised' = TRUE
                /\ outcome' = "none" /\ prompts' = 0
           [] OTHER ->
                \E a \in HandlerAnswers(handler, Gate, tty) :
                    IF a = "prompt"
                    THEN /\ toolPc' = "prompt" /\ prompts' = 1 /\ outcome' = "none"
                         /\ toolResult' = <<>> /\ toolRaised' = FALSE
                    ELSE Settle(c, a) /\ prompts' = 0
    /\ UNCHANGED <<canWrite, files, effects, alwaysChosenAt, denyChosenAt>>
    /\ UNCHANGED <<handler, alwaysApprove, alwaysDeny, consecutiveNulls>>
    /\ UNCHANGED nonToolVars

\* the user answers the menu on display; ide: what the IDE does if asked
MenuInput(input, ide) ==
    /\ toolPc = "prompt"
    /\ LET pass == IF curCall.tool = "execute__shell_command"
                   THEN GetUserChoiceForCommandPass(Gate, ParseChoice(input))
                   ELSE GetUserChoicePass(Gate, ParseChoice(input), ide)
       IN /\ SetGate(pass.gate)
          /\ IF pass.result = "none"
             THEN /\ prompts < MaxPrompts
                  /\ prompts' = prompts + 1
                  /\ UNCHANGED <<toolPc, outcome, toolResult, toolRaised>>
             ELSE Settle(curCall, pass.result) /\ prompts' = prompts
    /\ alwaysChosenAt' = IF ParseChoice(input) = "ALWAYS" THEN callNo ELSE alwaysChosenAt
    /\ denyChosenAt' = IF ParseChoice(input) = "DENY" THEN callNo ELSE denyChosenAt
    /\ lastChoice' = ParseChoice(input)
    /\ lastIde' = IF ParseChoice(input) = "IDE" /\ curCall.tool # "execute__shell_command"
                  THEN ide ELSE "none"
    /\ invalidRun' = IF ParseChoice(input) = NullChoice THEN invalidRun + 1 ELSE 0
    /\ UNCHANGED <<handler, isTTY, canWrite, files, curCall, callNo, effects>>
    /\ UNCHANGED nonToolVars

\* fileSystem.writeFile(path, content) is called and succeeds or fails
WriteFile(ok) ==
    /\ toolPc = "approved"
    /\ curCall.tool \in {"create__file", "edit__file"}
    /\ effects' = Append(effects, [call |-> callNo, kind |-> "writeFile",
                                   confirmed |-> outcome])
    /\ files' = IF ok THEN [files EXCEPT ![curCall.path.val] = FileWith(curCall.content.val)]
                ELSE files
    /\ toolResult' = WriteResult(curCall, ok)
    /\ toolPc' = "done"
    /\ UNCHANGED <<canWrite, curCall, callNo, outcome, prompts, toolRaised, alwaysChosenAt,
                   denyChosenAt, lastChoice, lastIde, invalidRun>>
    /\ UNCHANGED gateVars
    /\ UNCHANGED nonToolVars

\* the shell is spawned and the process ends with r
SpawnShell(r) ==
    /\ toolPc = "approved"
    /\ curCall.tool = "execute__shell_command"
    /\ effects' = Append(effects, [call |-> callNo, kind |-> "spawn",
                                   confirmed |-> outcome])
    /\ toolResult' = FormatResult(curCall, r)
    /\ toolPc' = "done"
    /\ UNCHANGED <<canWrite, files, curCall, callNo, outcome, prompts, toolRaised,
                   alwaysChosenAt, denyChosenAt, lastChoice, lastIde, invalidRun>>
    /\ UNCHANGED gateVars
    /\ UNCHANGED nonToolVars

NextTools ==
    \/ \E c \in FileToolCalls \cup ShellToolCalls, tty \in BOOLEAN : Execute(c, tty)
    \/ \E input \in MenuInputs, ide \in IdeAnswers : MenuInput(input, ide)
    \/ \E ok \in BOOLEAN : WriteFile(ok)
    \/ \E r \in ShellResults : SpawnShell(r)

\* the tools and the handler at rest (the state the other specifications keep)
ToolsAtRest ==
    /\ alwaysApprove = FALSE
    /\ alwaysDeny = FALSE
    /\ consecutiveNulls = 0
    /\ toolPc = "idle"
    /\ curCall = NoCall
    /\ callNo = 0
    /\ outcome = "none"
    /\ prompts = 0
    /\ toolResult = <<>>
    /\ toolRaised = FALSE
    /\ effects = <<>>
    /\ alwaysChosenAt = 0
    /\ denyChosenAt = 0
    /\ lastChoice = "none"
    /\ lastIde = "none"
    /\ invalidRun = 0

\* a constructed handler and tools over a file system, no call made yet
InitTools ==
    /\ handler \in Handlers
    /\ isTTY \in BOOLEAN
    /\ canWrite \in BOOLEAN
    /\ files \in [FilePaths -> {NoFile, FileWith([length |-> 3, text |-> "old"])}]
    /\ ToolsAtRest

InitToolsUnused ==
    /\ handler = "brave"
    /\ isTTY = FALSE
    /\ canWrite = FALSE
    /\ files = [p \in FilePaths |-> NoFile]
    /\ ToolsAtRest

InitAgentUnused ==
    /\ maxIterations = DefaultMaxIterations
    /\ heap = <<SystemMessage>>
    /\ messages = <<1>>
    /\ pc = "idle"
    /\ iterations = 0
    /\ toolCalls = <<>>
    /\ idx = 0
    /\ executing = {}
    /\ runResult = Unresolved
    /\ runError = "none"
    /\ nextCallId = 1
    /\ responses = <<>>
    /\ completions = 0
    /\ executedIds = {}
    /\ raisedIds = {}

(***************************************************************************)
(* DiffViewer (utils/DiffViewer.ts).  A text is a sequence of characters,  *)
(* a line is the sequence of characters between two newlines.              *)
(***************************************************************************)
Newline == "\n"
LineChars == {"a", "b"}
\* the lines the model builds its texts from: the empty line and two others
Lines == {<<>>} \cup {<<ch>> : ch \in LineChars}

RECURSIVE LineSeqs(_)
LineSeqs(n) ==
    IF n = 0 THEN {<<>>}
    ELSE LineSeqs(n - 1) \cup {Append(ls, l) : ls \in {x \in LineSeqs(n - 1) : Len(x) = n - 1},
                                              l \in Lines}

\* Array.prototype.join('\n')
RECURSIVE Join(_)
Join(ls) ==
    IF Len(ls) = 0 THEN <<>>
    ELSE IF Len(ls) = 1 THEN ls[1]
    ELSE ls[1] \o <<Newline>> \o Join(Tail(ls))

\* String.prototype.split('\n'): done holds the finished lines, cur the
\* characters since the last newline
RECURSIVE SplitFrom(_, _, _)
SplitFrom(text, done, cur) ==
    IF Len(text) = 0 THEN Append(done, cur)
    ELSE IF Head(text) = Newline THEN SplitFrom(Tail(text), Append(done, cur), <<>>)
    ELSE SplitFrom(Tail(text), done, Append(cur, Head(text)))
Split(text) == SplitFrom(text, <<>>, <<>>)

\* !content: undefined and the empty string are falsy
Falsy(content) == ~content.present \/ Len(content.val) = 0

\* computeLCS: the table dp of LCS lengths
LcsTable(a, b) ==
    LET dp[p \in (0..Len(a)) \X (0..Len(b))] ==
            IF p[1] = 0 \/ p[2] = 0 THEN 0
            ELSE IF a[p[1]] = b[p[2]] THEN dp[<<p[1] - 1, p[2] - 1>>] + 1
            ELSE IF dp[<<p[1] - 1, p[2]>>] >= dp[<<p[1], p[2] - 1>>]
                 THEN dp[<<p[1] - 1, p[2]>>]
                 ELSE dp[<<p[1], p[2] - 1>>]
    IN dp

\* computeLCS: the backtrack from (i, j), lcs holds what was unshifted so far
RECURSIVE LcsBacktrackDropsFirst(_, _, _, _, _, _)
LcsBacktrackDropsFirst(a, b, dp, i, j, lcs) ==
    IF ~(i > 0 /\ j > 0) THEN lcs
    ELSE IF a[i] = b[j] /\ i > 1
         THEN LcsBacktrackDropsFirst(a, b, dp, i - 1, j - 1, <<a[i]>> \o lcs)
    ELSE IF dp[<<i - 1, j>>] > dp[<<i, j - 1>>]
         THEN LcsBacktrackDropsFirst(a, b, dp, i - 1, j, lcs)
    ELSE LcsBacktrackDropsFirst(a, b, dp, i, j - 1, lcs)
RECURSIVE LcsBacktrackTieFirst(_, _, _, _, _, _)
LcsBacktrackTieFirst(a, b, dp, i, j, lcs) ==
    IF ~(i > 0 /\ j > 0) THEN lcs
    ELSE IF a[i] = b[j] THEN LcsBacktrackTieFirst(a, b, dp, i - 1, j - 1, <<a[i]>> \o lcs)
    ELSE IF dp[<<i - 1, j>>] >= dp[<<i, j - 1>>]
         THEN LcsBacktrackTieFirst(a, b, dp, i - 1, j, lcs)
    ELSE LcsBacktrackTieFirst(a, b, dp, i, j - 1, lcs)
RECURSIVE LcsBacktrack(_, _, _, _, _, _)
LcsBacktrack(a, b, dp, i, j, lcs) ==
    IF ~(i > 0 /\ j > 0) THEN lcs
    ELSE IF a[i] = b[j] THEN LcsBacktrack(a, b, dp, i - 1, j - 1, <<a[i]>> \o lcs)
    ELSE IF dp[<<i - 1, j>>] > dp[<<i, j - 1>>] THEN LcsBacktrack(a, b, dp, i - 1, j, lcs)
    ELSE LcsBacktrack(a, b, dp, i, j - 1, lcs)

\* DiffViewer.computeLCS
ComputeLCSEmpty(a, b) == <<>>

ComputeLCS(a, b) == LcsBacktrack(a, b, LcsTable(a, b), Len(a), Len(b), <<>>)

DiffLine(type, content) == [type |-> type, content |-> content]

\* the inner while of the second branch of computeDiff: remove old lines up
\* to the next LCS element (i, k are 0-based as in the code)
RemoveUpToNothing(old, lcs, k, i, out) == [i |-> i, out |-> out]

RECURSIVE RemoveUpTo(_, _, _, _, _)
RemoveUpTo(old, lcs, k, i, out) ==
    IF i < Len(old) /\ old[i + 1] # lcs[k + 1]
    THEN RemoveUpTo(old, lcs, k, i + 1, Append(out, DiffLine("removed", old[i + 1])))
    ELSE [i |-> i, out |-> out]

\* one pass of the main loop of computeDiff from the cursors st.i, st.j, st.k
DiffPass(old, new, lcs, st) ==
    IF st.k < Len(lcs) /\ st.i < Len(old) /\ old[st.i + 1] = lcs[st.k + 1]
    THEN [i |-> st.i + 1, j |-> st.j + 1, k |-> st.k + 1,
          out |-> Append(st.out, DiffLine("context", old[st.i + 1]))]
    ELSE IF st.k < Len(lcs) /\ st.j < Len(new) /\ new[st.j + 1] = lcs[st.k + 1]
    THEN LET r == RemoveUpTo(old, lcs, st.k, st.i, st.out)
         IN [i |-> r.i, j |-> st.j, k |-> st.k, out |-> r.out]
    ELSE LET rem == st.i < Len(old) /\ (st.k >= Len(lcs) \/ old[st.i + 1] # lcs[st.k + 1])
             add == st.j < Len(new) /\ (st.k >= Len(lcs) \/ new[st.j + 1] # lcs[st.k + 1])
             out1 == IF rem THEN Append(st.out, DiffLine("removed", old[st.i + 1]))
                     ELSE st.out
             out2 == IF add THEN Append(out1, DiffLine("added", new[st.j + 1])) ELSE out1
         IN [i |-> IF rem THEN st.i + 1 ELSE st.i,
             j |-> IF add THEN st.j + 1 ELSE st.j,
             k |-> st.k, out |-> out2]

\* the main loop of computeDiff; a pass that changes nothing repeats for ever
RECURSIVE DiffLoop(_, _, _, _)
DiffLoop(old, new, lcs, st) ==
    IF ~(st.i < Len(old) \/ st.j < Len(new)) THEN [returns |-> TRUE, out |-> st.out]
    ELSE IF DiffPass(old, new, lcs, st) = st THEN [returns |-> FALSE, out |-> st.out]
    ELSE DiffLoop(old, new, lcs, DiffPass(old, new, lcs, st))

\* the cursors (i, j, k) at the head of each pass of the main loop and the
\* branch the pass takes, then the cursors the loop ends with; a pass that
\* changes nothing is the last one listed
DiffBranch(old, new, lcs, st) ==
    IF ~(st.i < Len(old) \/ st.j < Len(new)) THEN "exit"
    ELSE IF st.k < Len(lcs) /\ st.i < Len(old) /\ old[st.i + 1] = lcs[st.k + 1] THEN "context"
    ELSE IF st.k < Len(lcs) /\ st.j < Len(new) /\ new[st.j + 1] = lcs[st.k + 1] THEN "removeUpTo"
    ELSE "remaining"

RECURSIVE DiffPasses(_, _, _, _)
DiffPasses(old, new, lcs, st) ==
    LET here == [i |-> st.i, j |-> st.j, k |-> st.k, branch |-> DiffBranch(old, new, lcs, st)]
    IN IF here.branch = "exit" THEN <<here>>
       ELSE IF DiffPass(old, new, lcs, st) = st THEN <<here, [here EXCEPT !.branch = "stuck"]>>
       ELSE <<here>> \o DiffPasses(old, new, lcs, DiffPass(old, new, lcs, st))

\* DiffViewer.computeDiff
ComputeDiff(old, new) ==
    DiffLoop(old, new, ComputeLCS(old, new), [i |-> 0, j |-> 0, k |-> 0, out |-> <<>>])

CountType(ds, type) == Cardinality({n \in 1..Len(ds) : ds[n].type = type})
Min(x, y) == IF x <= y THEN x ELSE y

Stats(a, d, m) == [additions |-> a, deletions |-> d, modifications |-> m]
NoStats == [additions |-> -1, deletions |-> -1, modifications |-> -1]

\* the pairing of additions with deletions at the end of computeStats
PairStatsKeepsDeletions(added, removed) ==
    Stats(added - Min(added, removed), removed, Min(added, removed))
PairStatsNoPairing(added, removed) == Stats(added, removed, 0)
PairStats(added, removed) ==
    Stats(added - Min(added, removed), removed - Min(added, removed), Min(added, removed))

\* DiffViewer.computeStats (when computeDiff returns)
ComputeStatsNoSpecialCases(old, new) ==
    LET ds == ComputeDiff(Split(old.val), Split(new.val)).out
    IN PairStats(CountType(ds, "added"), CountType(ds, "removed"))
ComputeStats(old, new) ==
    IF Falsy(old) /\ Falsy(new) THEN Stats(0, 0, 0)
    ELSE IF Falsy(old) THEN Stats(Len(Split(new.val)), 0, 0)
    ELSE IF Falsy(new) THEN Stats(0, Len(Split(old.val)), 0)
    ELSE LET ds == ComputeDiff(Split(old.val), Split(new.val)).out
         IN PairStats(CountType(ds, "added"), CountType(ds, "removed"))

\* the texts a caller may hand over for an array of lines: undefined, or the
\* lines joined by newlines
ContentsOf(ls) == {Absent, Given(Join(ls))}

InitDiff ==
    /\ oldLines \in LineSeqs(MaxLines)
    /\ newLines \in LineSeqs(MaxLines)
    /\ oldContent \in ContentsOf(oldLines)
    /\ newContent \in ContentsOf(newLines)
    /\ diffPc = "start"
    /\ diffLines = <<>>
    /\ diffLoops = FALSE
    /\ stats = NoStats
    /\ lcsLines = <<>>
    /\ diffPasses = <<>>

InitDiffUnused ==
    /\ oldLines = <<>>
    /\ newLines = <<>>
    /\ oldContent = Absent
    /\ newContent = Absent
    /\ diffPc = "start"
    /\ diffLines = <<>>
    /\ diffLoops = FALSE
    /\ stats = NoStats
    /\ lcsLines = <<>>
    /\ diffPasses = <<>>

\* computeDiff(oldLines, newLines) is called
CallComputeDiff ==
    /\ diffPc = "start"
    /\ diffLines' = ComputeDiff(oldLines, newLines).out
    /\ diffLoops' = ~ComputeDiff(oldLines, newLines).returns
    /\ lcsLines' = ComputeLCS(oldLines, newLines)
    /\ diffPasses' = DiffPasses(oldLines, newLines, ComputeLCS(oldLines, newLines),
                                [i |-> 0, j |-> 0, k |-> 0, out |-> <<>>])
    /\ diffPc' = "diffed"
    /\ UNCHANGED <<oldContent, newContent, oldLines, newLines, stats>>
    /\ UNCHANGED fmtVars
    /\ UNCHANGED nonDiffVars

\* computeStats(oldContent, newContent) is called
CallComputeStats ==
    /\ diffPc = "diffed"
    /\ ~diffLoops
    /\ stats' = ComputeStats(oldContent, newContent)
    /\ diffPc' = "stats"
    /\ UNCHANGED <<oldContent, newContent, oldLines, newLines, diffLines, diffLoops, lcsLines,
                   diffPasses>>
    /\ UNCHANGED fmtVars
    /\ UNCHANGED nonDiffVars

NextDiff == CallComputeDiff \/ CallComputeStats

\* ---- formatUnifiedDiff ----
DiffTypes == {"context", "added", "removed"}
\* the content of the n-th line of a diff handed to formatUnifiedDiff
LineNames == <<"1", "2", "3", "4", "5", "6", "7", "8">>

\* the diffs of exactly n lines, the n-th line holding the n-th content
RECURSIVE DiffsOfLen(_)
DiffsOfLen(n) ==
    IF n = 0 THEN {<<>>}
    ELSE {Append(ds, DiffLine(t, <<LineNames[n]>>)) : ds \in DiffsOfLen(n - 1), t \in DiffTypes}
DiffLineSeqs(n) == UNION {DiffsOfLen(m) : m \in 0..n}

\* a line of a chunk: ` ${content}`, `+${content}` or `-${content}`
ChunkLine(mark, content) == <<mark>> \o content

Max(x, y) == IF x >= y THEN x ELSE y

\* the leading context pushed when a chunk starts at line i (0-based): the
\* Context lines among diffLines[start .. i-1]
RECURSIVE LeadingContext(_, _, _)
LeadingContext(ds, j, i) ==
    IF j >= i THEN <<>>
    ELSE (IF ds[j + 1].type = "context" THEN <<ChunkLine(" ", ds[j + 1].content)>> ELSE <<>>)
            \o LeadingContext(ds, j + 1, i)

\* one pass of the for loop of formatUnifiedDiff on line i (0-based)
FormatPass(ds, ctx, i, st) ==
    LET line == ds[i + 1] IN
    IF line.type = "context"
    THEN IF Len(st.currentChunk) > 0
         THEN IF st.contextCount + 1 <= ctx * 2
              THEN [st EXCEPT !.contextCount = @ + 1,
                              !.currentChunk = Append(@, ChunkLine(" ", line.content))]
              ELSE [chunks |-> Append(st.chunks, st.currentChunk),
                    currentChunk |-> <<>>, contextCount |-> 0]
         ELSE [st EXCEPT !.contextCount = 0]
    ELSE LET lead == IF Len(st.currentChunk) = 0 /\ st.contextCount = 0
                     THEN LeadingContext(ds, Max(0, i - ctx), i)
                     ELSE <<>>
             mark == IF line.type = "added" THEN "+" ELSE "-"
         IN [chunks |-> st.chunks,
             currentChunk |-> Append(st.currentChunk \o lead, ChunkLine(mark, line.content)),
             contextCount |-> 0]

RECURSIVE FormatLoop(_, _, _, _)
FormatLoop(ds, ctx, i, st) ==
    IF i >= Len(ds) THEN st ELSE FormatLoop(ds, ctx, i + 1, FormatPass(ds, ctx, i, st))

FormatChunksNoFinal(ds, ctx) ==
    FormatLoop(ds, ctx, 0, [chunks |-> <<>>, currentChunk |-> <<>>,
                            contextCount |-> 0]).chunks

\* the chunks formatUnifiedDiff has built when it returns
FormatChunks(ds, ctx) ==
    LET st == FormatLoop(ds, ctx, 0, [chunks |-> <<>>, currentChunk |-> <<>>,
                                      contextCount |-> 0])
    IN IF Len(st.currentChunk) > 0 THEN Append(st.chunks, st.currentChunk) ELSE st.chunks

\* chunks.join('\n\n') once each chunk is joined
RECURSIVE JoinChunks(_)
JoinChunks(cs) ==
    IF Len(cs) = 0 THEN <<>>
    ELSE IF Len(cs) = 1 THEN Join(cs[1])
    ELSE Join(cs[1]) \o <<Newline, Newline>> \o JoinChunks(Tail(cs))

NoChangesText == <<"(no changes)">>

\* DiffViewer.formatUnifiedDiff
FormatUnifiedDiff(ds, ctx) ==
    IF Len(FormatChunks(ds, ctx)) = 0 THEN NoChangesText
    ELSE JoinChunks(FormatChunks(ds, ctx))

InitFormat ==
    /\ fmtLines \in DiffLineSeqs(MaxDiffLines)
    /\ contextLines \in 0..MaxContextLines
    /\ fmtPc = "start"
    /\ chunks = <<>>
    /\ fmtText = <<>>

InitFormatUnused ==
    /\ fmtLines = <<>>
    /\ contextLines = 0
    /\ fmtPc = "start"
    /\ chunks = <<>>
    /\ fmtText = <<>>

\* formatUnifiedDiff(fmtLines, contextLines) is called
CallFormatUnifiedDiff ==
    /\ fmtPc = "start"
    /\ chunks' = FormatChunks(fmtLines, contextLines)
    /\ fmtText' = FormatUnifiedDiff(fmtLines, contextLines)
    /\ fmtPc' = "formatted"
    /\ UNCHANGED <<fmtLines, contextLines>>
    /\ UNCHANGED <<oldContent, newContent, oldLines, newLines, diffPc, diffLines, diffLoops,
                   stats, lcsLines, diffPasses>>
    /\ UNCHANGED nonDiffVars

NextFormat == CallFormatUnifiedDiff

(***************************************************************************)
(* McpClient (mcp/McpClient.ts), McpToolDiscovery (mcp/McpToolDiscovery.ts)*)
(* and McpToolAdapter (mcp/McpToolAdapter.ts).  A remote answer is what    *)
(* axios delivers: a transport outcome and, when the transport worked, the *)
(* JSON-RPC response body.                                                 *)
(***************************************************************************)
\* outcomes of the GET on the health URL: axios rejects on a network error,
\* on the 5 s timeout and on a status outside 2xx
ProbeOutcomes == {"networkError", "timeout", "status200", "status204", "status500"}

\* McpTool entries of a tools/list answer: an entry may be null; a server may
\* name a tool freshly or as ReadFileTool is named
McpTools ==
    {[isNull |-> TRUE, name |-> ""]}
    \cup {[isNull |-> FALSE, name |-> n] : n \in {"remote__tool", "read__file"}}

\* ToolsListResponse.tools
NoTools == [kind |-> "undefined", items |-> <<>>]
ToolsValues ==
    {NoTools, [kind |-> "notArray", items |-> <<>>]}
    \cup {[kind |-> "array", items |-> s] :
            s \in UNION {[1..n -> McpTools] : n \in 0..MaxRemoteTools}}

\* ToolCallResult.content: an entry may be null
NoContent == [kind |-> "undefined", items |-> <<>>]
ContentValues ==
    {NoContent}
    \cup {[kind |-> "array", items |-> s] :
            s \in {<<>>,
                   <<[isNull |-> FALSE, text |-> <<"out">>]>>,
                   <<[isNull |-> FALSE, text |-> <<"out">>],
                     [isNull |-> FALSE, text |-> <<"more">>]>>,
                   <<[isNull |-> TRUE, text |-> EmptyText]>>}}

\* JsonRpcResponse.result: undefined, null or an object
NoResult == [kind |-> "undefined", serverInfo |-> FALSE, tools |-> NoTools,
             isError |-> FALSE, content |-> NoContent]

\* what axios.post delivers; NoAnswer while the request is not answered
NoAnswer == [transport |-> "none", hasData |-> FALSE, hasError |-> FALSE, result |-> NoResult]

HttpAnswer(r) == [transport |-> "ok", hasData |-> TRUE, hasError |-> FALSE, result |-> r]

FailedAnswers ==
    {[transport |-> "networkError", hasData |-> FALSE, hasError |-> FALSE, result |-> NoResult],
     [transport |-> "httpError", hasData |-> FALSE, hasError |-> FALSE, result |-> NoResult],
     [transport |-> "ok", hasData |-> FALSE, hasError |-> FALSE, result |-> NoResult],
     [transport |-> "ok", hasData |-> TRUE, hasError |-> TRUE, result |-> NoResult],
     HttpAnswer(NoResult)}

InitializeAnswerSet ==
    FailedAnswers \cup
    {HttpAnswer([NoResult EXCEPT !.kind = "null"]), HttpAnswer([NoResult EXCEPT !.kind = "object"]),
     HttpAnswer([NoResult EXCEPT !.kind = "object", !.serverInfo = TRUE])}

ListAnswerSet ==
    FailedAnswers \cup {HttpAnswer([NoResult EXCEPT !.kind = "null"])} \cup
    {HttpAnswer([NoResult EXCEPT !.kind = "object", !.tools = t]) : t \in ToolsValues}

CallAnswerSet ==
    FailedAnswers \cup {HttpAnswer([NoResult EXCEPT !.kind = "null"])} \cup
    {HttpAnswer([NoResult EXCEPT !.kind = "object", !.isError = e, !.content = c]) :
        e \in BOOLEAN, c \in ContentValues}

\* the args an adapter's execute may be handed
McpArgs == {"args1", "args2"}

\* McpClient.nextId: ++this.requestId
NextIdPostIncrement(id) == [id |-> id, requestId |-> id + 1]

NextId(id) == [id |-> id + 1, requestId |-> id + 1]

\* the JsonRpcRequest built by initialize, listTools and callTool
JsonRpcRequest(id, method, name, args) ==
    [id |-> id, method |-> method, name |-> name, args |-> args]

\* McpClient.isServerAvailable
IsServerAvailableAny2xx(o) == o \in {"status200", "status204"}

IsServerAvailable(o) == o = "status200"

\* McpClient.sendRequest: the result, or the McpException it throws
Thrown(msg) == [thrown |-> TRUE, message |-> msg, value |-> NoResult]

SendRequest(resp) ==
    IF resp.transport # "ok" THEN Thrown(<<"HTTP error: ", resp.transport>>)
    ELSE IF ~resp.hasData THEN Thrown(<<"TypeError">>)
    ELSE IF resp.hasError THEN Thrown(<<"rpc error">>)
    ELSE IF resp.result.kind = "undefined" THEN Thrown(<<"No result in response">>)
    ELSE [thrown |-> FALSE, message |-> EmptyText, value |-> resp.result]

\* discoverTools between "await client.initialize()" and "client.listTools()":
\* initResult is read only when verbose
InitializeProceedsAlways(r, v) == TRUE

InitializeProceeds(r, v) ==
    /\ ~r.thrown
    /\ v => (r.value.kind = "object" /\ r.value.serverInfo)

\* McpClient.listTools: response.tools, or what it throws
ListTools(resp) ==
    IF SendRequest(resp).thrown THEN [thrown |-> TRUE, tools |-> NoTools]
    ELSE IF SendRequest(resp).value.kind = "null" THEN [thrown |-> TRUE, tools |-> NoTools]
    ELSE [thrown |-> FALSE, tools |-> SendRequest(resp).value.tools]

\* mcpTools.map(mcpTool => new McpToolAdapter(mcpTool, client)): the names of
\* the adapters, or a TypeError
MapToAdapters(l) ==
    IF l.thrown THEN [thrown |-> TRUE, names |-> <<>>]
    ELSE IF l.tools.kind # "array" THEN [thrown |-> TRUE, names |-> <<>>]
    ELSE IF \E i \in DOMAIN l.tools.items : l.tools.items[i].isNull
         THEN [thrown |-> TRUE, names |-> <<>>]
    ELSE [thrown |-> FALSE,
          names |-> [i \in DOMAIN l.tools.items |-> l.tools.items[i].name]]

\* the try/catch of discoverTools: what the call resolves with
DiscoverCatch(thrown, names) ==
    [raised |-> FALSE, names |-> IF thrown THEN <<>> ELSE names]

\* McpToolAdapter.formatResult
RECURSIVE JoinTexts(_)
JoinTexts(items) ==
    IF Len(items) = 0 THEN EmptyText
    ELSE IF Len(items) = 1 THEN items[1].text
    ELSE items[1].text \o <<"\n\n">> \o JoinTexts(Tail(items))

AdapterFormatResult(result) ==
    IF result.content.kind = "undefined" \/ Len(result.content.items) = 0
    THEN [thrown |-> FALSE, text |-> <<"(no output)">>]
    ELSE IF \E i \in DOMAIN result.content.items : result.content.items[i].isNull
    THEN [thrown |-> TRUE, text |-> EmptyText]
    ELSE [thrown |-> FALSE, text |-> JoinTexts(result.content.items)]

\* McpToolAdapter.execute once callTool settled with r
FailedToCall(name, msg) == <<"ERROR: ", "Failed to call MCP tool '", name, "': ">> \o msg

AdapterExecuteNoPrefix(name, r) ==
    IF r.thrown THEN [raised |-> FALSE, text |-> FailedToCall(name, r.message)]
    ELSE IF r.value.kind = "null" \/ AdapterFormatResult(r.value).thrown
         THEN [raised |-> FALSE, text |-> FailedToCall(name, <<"TypeError">>)]
    ELSE [raised |-> FALSE, text |-> AdapterFormatResult(r.value).text]

AdapterExecute(name, r) ==
    IF r.thrown THEN [raised |-> FALSE, text |-> FailedToCall(name, r.message)]
    ELSE IF r.value.kind = "null"
         THEN [raised |-> FALSE, text |-> FailedToCall(name, <<"TypeError">>)]
    ELSE IF AdapterFormatResult(r.value).thrown
         THEN [raised |-> FALSE, text |-> FailedToCall(name, <<"TypeError">>)]
    ELSE IF r.value.isError
         THEN [raised |-> FALSE, text |-> <<"ERROR: ">> \o AdapterFormatResult(r.value).text]
    ELSE [raised |-> FALSE, text |-> AdapterFormatResult(r.value).text]

\* main: the tools handed to the AIAgent constructor, by name
MainTools(mcpTools) ==
    <<"list__directory", "read__file", "create__file", "edit__file", "execute__shell_command">>
    \o mcpTools \o <<"__find_in_codebase_agent__">>

\* Map.prototype.set: an existing key keeps its place and gets the new value
MapSet(m, k, v) ==
    IF \E i \in DOMAIN m : m[i].key = k
    THEN [i \in DOMAIN m |-> IF m[i].key = k THEN [key |-> k, tool |-> v] ELSE m[i]]
    ELSE Append(m, [key |-> k, tool |-> v])

\* AIAgent.constructor: toolMap.set(tool.name, tool) for each tool; a tool is
\* identified by its position in config.tools
RECURSIVE BuildToolMap(_, _, _)
BuildToolMap(tools, i, m) ==
    IF i > Len(tools) THEN m
    ELSE BuildToolMap(tools, i + 1, MapSet(m, tools[i], i))

\* this.toolMap.get(name)
MapGet(m, k) == m[CHOOSE i \in DOMAIN m : m[i].key = k].tool

\* AIAgent.getCompletion: Array.from(this.toolMap.values()), by position in
\* config.tools
OfferedTools(m) == [i \in DOMAIN m |-> m[i].tool]

\* before main calls discoverTools
InitMcp ==
    /\ mcpPc = "start"
    /\ verbose = FALSE
    /\ requestId = 0
    /\ sent = <<>>
    /\ probe = "none"
    /\ initAnswer = NoAnswer
    /\ listAnswer = NoAnswer
    /\ discovered = <<>>
    /\ discoverRaised = FALSE
    /\ execName = ""
    /\ execArgs = "none"
    /\ callAnswer = NoAnswer
    /\ execResult = EmptyText
    /\ execRaised = FALSE
    /\ agentTools = <<>>
    /\ toolMap = <<>>

\* discoverTools(serverUrl, v) is called: a client is constructed and the
\* liveness probe is sent
DiscoverTools(v) ==
    /\ mcpPc = "start"
    /\ verbose' = v
    /\ mcpPc' = "probing"
    /\ UNCHANGED <<requestId, sent, probe, initAnswer, listAnswer, discovered,
                   discoverRaised, execName, execArgs, callAnswer, execResult, execRaised,
                   agentTools, toolMap>>
    /\ UNCHANGED nonMcpVars

\* the probe settles with o: discoverTools returns [] or sends initialize
ProbeAnswers(o) ==
    /\ mcpPc = "probing"
    /\ probe' = o
    /\ IF IsServerAvailable(o)
       THEN /\ requestId' = NextId(requestId).requestId
            /\ sent' = Append(sent, JsonRpcRequest(NextId(requestId).id, "initialize", "", "none"))
            /\ mcpPc' = "initializing"
            /\ UNCHANGED discovered
       ELSE /\ mcpPc' = "returned"
            /\ discovered' = <<>>
            /\ UNCHANGED <<requestId, sent>>
    /\ UNCHANGED <<verbose, initAnswer, listAnswer, discoverRaised,
                   execName, execArgs, callAnswer, execResult, execRaised, agentTools, toolMap>>
    /\ UNCHANGED nonMcpVars

\* the initialize request settles with resp: discoverTools returns [] or
\* sends tools/list
InitializeAnswers(resp) ==
    /\ mcpPc = "initializing"
    /\ initAnswer' = resp
    /\ IF InitializeProceeds(SendRequest(resp), verbose)
       THEN /\ requestId' = NextId(requestId).requestId
            /\ sent' = Append(sent, JsonRpcRequest(NextId(requestId).id, "tools/list", "", "none"))
            /\ mcpPc' = "listing"
            /\ UNCHANGED <<discovered, discoverRaised>>
       ELSE /\ mcpPc' = "returned"
            /\ discovered' = DiscoverCatch(TRUE, <<>>).names
            /\ discoverRaised' = DiscoverCatch(TRUE, <<>>).raised
            /\ UNCHANGED <<requestId, sent>>
    /\ UNCHANGED <<verbose, probe, listAnswer,
                   execName, execArgs, callAnswer, execResult, execRaised, agentTools, toolMap>>
    /\ UNCHANGED nonMcpVars

\* the tools/list request settles with resp: discoverTools returns
ListAnswers(resp) ==
    /\ mcpPc = "listing"
    /\ listAnswer' = resp
    /\ discovered' = DiscoverCatch(MapToAdapters(ListTools(resp)).thrown,
                                   MapToAdapters(ListTools(resp)).names).names
    /\ discoverRaised' = DiscoverCatch(MapToAdapters(ListTools(resp)).thrown,
                                       MapToAdapters(ListTools(resp)).names).raised
    /\ mcpPc' = "returned"
    /\ UNCHANGED <<verbose, requestId, sent, probe, initAnswer,
                   execName, execArgs, callAnswer, execResult, execRaised, agentTools, toolMap>>
    /\ UNCHANGED nonMcpVars

\* main pushes the discovered tools and the delegate tool and constructs the
\* agent
ConstructAgent ==
    /\ mcpPc = "returned"
    /\ agentTools' = MainTools(discovered)
    /\ toolMap' = BuildToolMap(MainTools(discovered), 1, <<>>)
    /\ mcpPc' = "ready"
    /\ UNCHANGED <<verbose, requestId, sent, probe, initAnswer, listAnswer, discovered,
                   discoverRaised, execName, execArgs, callAnswer, execResult, execRaised>>
    /\ UNCHANGED nonMcpVars

\* execute(args) of the i-th adapter is called: tools/call is sent
CallAdapter(i, args) ==
    /\ mcpPc = "ready"
    /\ i \in DOMAIN discovered
    /\ Len(sent) < MaxRequests
    /\ execName' = discovered[i]
    /\ execArgs' = args
    /\ requestId' = NextId(requestId).requestId
    /\ sent' = Append(sent, JsonRpcRequest(NextId(requestId).id, "tools/call", discovered[i], args))
    /\ mcpPc' = "calling"
    /\ UNCHANGED <<verbose, probe, initAnswer, listAnswer, discovered, discoverRaised,
                   callAnswer, execResult, execRaised, agentTools, toolMap>>
    /\ UNCHANGED nonMcpVars

\* the tools/call request settles with resp: execute resolves
CallAnswers(resp) ==
    /\ mcpPc = "calling"
    /\ callAnswer' = resp
    /\ execResult' = AdapterExecute(execName, SendRequest(resp)).text
    /\ execRaised' = AdapterExecute(execName, SendRequest(resp)).raised
    /\ mcpPc' = "ready"
    /\ UNCHANGED <<verbose, requestId, sent, probe, initAnswer, listAnswer, discovered,
                   discoverRaised, execName, execArgs, agentTools, toolMap>>
    /\ UNCHANGED nonMcpVars

NextMcp ==
    \/ \E v \in BOOLEAN : DiscoverTools(v)
    \/ \E o \in ProbeOutcomes : ProbeAnswers(o)
    \/ \E resp \in InitializeAnswerSet : InitializeAnswers(resp)
    \/ \E resp \in ListAnswerSet : ListAnswers(resp)
    \/ ConstructAgent
    \/ \E i \in 1..MaxRemoteTools, args \in McpArgs : CallAdapter(i, args)
    \/ \E resp \in CallAnswerSet : CallAnswers(resp)

(***************************************************************************)
(* ExecuteShellCommandTool.executeCommand: the spawned process, the        *)
(* timeout timer and the force-kill timer.  Time is counted in seconds; a  *)
(* timer fires when it is due, before the clock moves on.                  *)
(***************************************************************************)
\* the delay of the inner setTimeout, in seconds
ForceKillDelay == 2

\* before executeCommand is called
InitShell ==
    /\ shPc = "start"
    /\ now = 0
    /\ shTimeout = 1
    /\ lifetime = 0
    /\ ignoresTerm = FALSE
    /\ procAlive = FALSE
    /\ killed = FALSE
    /\ timedOut = FALSE
    /\ signals = <<>>
    /\ timeoutHandle = "none"
    /\ forceHandle = "none"
    /\ forceDue = 0
    /\ shResult = [exited |-> FALSE, exitCode |-> 0, timedOut |-> FALSE]

\* proc.kill(signal) on a running process sends the signal and sets
\* proc.killed; on a process that is gone it does nothing
Kill(alive, flag, sigs, signal) ==
    IF alive THEN [killed |-> TRUE, signals |-> Append(sigs, signal)]
    ELSE [killed |-> flag, signals |-> sigs]

\* executeCommand(command, t) spawns a process that would exit by itself at
\* life (0: never) and that ignores SIGTERM or not, and arms the timeout
ExecuteCommand(t, life, ign) ==
    /\ shPc = "start"
    /\ shPc' = "running"
    /\ shTimeout' = t
    /\ lifetime' = life
    /\ ignoresTerm' = ign
    /\ procAlive' = TRUE
    /\ timeoutHandle' = "armed"
    /\ UNCHANGED <<now, killed, timedOut, signals, forceHandle, forceDue, shResult>>
    /\ UNCHANGED nonShVars

\* a timer or the exit of the process is due
TimeoutDue == timeoutHandle = "armed" /\ now >= shTimeout
ForceDue == forceHandle = "armed" /\ now >= forceDue
ExitDue ==
    /\ procAlive
    /\ \/ lifetime # 0 /\ now >= lifetime
       \/ \E n \in DOMAIN signals : signals[n] = "SIGKILL"
       \/ ~ignoresTerm /\ \E n \in DOMAIN signals : signals[n] = "SIGTERM"

\* a second passes
Tick ==
    /\ shPc # "start"
    /\ now < MaxTime
    /\ ~TimeoutDue /\ ~ForceDue /\ ~ExitDue
    /\ now' = now + 1
    /\ UNCHANGED <<shPc, shTimeout, lifetime, ignoresTerm, procAlive, killed, timedOut, signals,
                   timeoutHandle, forceHandle, forceDue, shResult>>
    /\ UNCHANGED nonShVars

\* the callback of the outer setTimeout
TimeoutFires ==
    /\ TimeoutDue
    /\ timedOut' = TRUE
    /\ killed' = Kill(procAlive, killed, signals, "SIGTERM").killed
    /\ signals' = Kill(procAlive, killed, signals, "SIGTERM").signals
    /\ timeoutHandle' = "fired"
    /\ forceHandle' = "armed"
    /\ forceDue' = now + ForceKillDelay
    /\ UNCHANGED <<shPc, now, shTimeout, lifetime, ignoresTerm, procAlive, shResult>>
    /\ UNCHANGED nonShVars

\* the callback of the inner setTimeout: if (!proc.killed) proc.kill('SIGKILL')
ForceKillFires ==
    /\ ForceDue
    /\ forceHandle' = "fired"
    /\ IF ~killed
       THEN /\ killed' = Kill(procAlive, killed, signals, "SIGKILL").killed
            /\ signals' = Kill(procAlive, killed, signals, "SIGKILL").signals
       ELSE UNCHANGED <<killed, signals>>
    /\ UNCHANGED <<shPc, now, shTimeout, lifetime, ignoresTerm, procAlive, timedOut,
                   timeoutHandle, forceDue, shResult>>
    /\ UNCHANGED nonShVars

\* the process exits, by itself or on a signal: the 'exit' handler clears the
\* outer timer and resolves the promise
ProcessExits ==
    /\ ExitDue
    /\ procAlive' = FALSE
    /\ timeoutHandle' = IF timeoutHandle = "armed" THEN "cleared" ELSE timeoutHandle
    /\ shResult' = [exited |-> signals = <<>>, exitCode |-> 0, timedOut |-> timedOut]
    /\ shPc' = "returned"
    /\ UNCHANGED <<now, shTimeout, lifetime, ignoresTerm, killed, timedOut, signals,
                   forceHandle, forceDue>>
    /\ UNCHANGED nonShVars

NextShell ==
    \/ \E t \in 1..MaxShellTimeout, life \in 0..MaxTime, ign \in BOOLEAN :
          ExecuteCommand(t, life, ign)
    \/ Tick
    \/ TimeoutFires
    \/ ForceKillFires
    \/ ProcessExits

(***************************************************************************)
(* Specifications                                                          *)
(***************************************************************************)
Init ==
    InitAgent /\ InitCaller /\ InitToolsUnused /\ InitDiffUnused /\ InitFormatUnused
    /\ InitMcp /\ InitShell

Next == NextAgent

Spec == Init /\ [][Next]_vars

SpecCaller == Init /\ [][NextAgentViewed \/ NextCaller]_vars

InitSpecTools ==
    InitAgentUnused /\ InitCaller /\ InitTools /\ InitDiffUnused /\ InitFormatUnused
    /\ InitMcp /\ InitShell

SpecTools == InitSpecTools /\ [][NextTools]_vars

InitSpecDiff ==
    InitAgentUnused /\ InitCaller /\ InitToolsUnused /\ InitDiff /\ InitFormatUnused
    /\ InitMcp /\ InitShell

InitSpecFormat ==
    InitAgentUnused /\ InitCaller /\ InitToolsUnused /\ InitDiffUnused /\ InitFormat
    /\ InitMcp /\ InitShell

SpecFormat == InitSpecFormat /\ [][NextFormat]_vars

InitSpecMcp ==
    InitAgentUnused /\ InitCaller /\ InitToolsUnused /\ InitDiffUnused /\ InitFormatUnused
    /\ InitMcp /\ InitShell

SpecMcp == InitSpecMcp /\ [][NextMcp]_vars

\* timers that are due fire, a process that is due to exit exits, time passes
SpecShell ==
    /\ InitSpecMcp
    /\ [][NextShell]_vars
    /\ WF_vars(Tick) /\ WF_vars(TimeoutFires) /\ WF_vars(ForceKillFires)
    /\ WF_vars(ProcessExits)

SpecDiff == InitSpecDiff /\ [][NextDiff]_vars

(***************************************************************************)
(* Claims about the confirmation gate (checked under SpecTools)            *)
(***************************************************************************)
EffectsOfCall(n) == {i \in 1..Len(effects) : effects[i].call = n}
EffectKind(c) == IF c.tool = "execute__shell_command" THEN "spawn" ELSE "writeFile"
StartsWith(t, fragment) == Len(t) > 0 /\ t[1] = fragment

\* C7: the create, edit and shell tools write the file or spawn the command
\* only after the confirmation handler answered Approved for that call, and at
\* most once; when the handler answers Rejected or Error the tool returns a
\* REJECTED or ERROR text, does not raise, and has done nothing.
C7_EffectOnlyAfterApproved ==
    /\ \A i \in 1..Len(effects) : effects[i].confirmed = "approved"
    /\ Cardinality(EffectsOfCall(callNo)) <= 1
    /\ \A i \in EffectsOfCall(callNo) :
            outcome = "approved" /\ effects[i].kind = EffectKind(curCall)
    /\ (toolPc = "prompt" \/ outcome # "approved") => EffectsOfCall(callNo) = {}
    /\ (toolPc = "done" /\ outcome = "rejected") =>
            ~toolRaised /\ StartsWith(toolResult, NotApprovedResult(curCall, "rejected")[1])
    /\ (toolPc = "done" /\ outcome = "error") =>
            ~toolRaised /\ StartsWith(toolResult, "ERROR: ")

\* a shell command rejected at the menu after an earlier call wrote its file
\* on approval
C7_Witness ==
    /\ toolPc = "done"
    /\ outcome = "rejected"
    /\ prompts > 0
    /\ curCall.tool = "execute__shell_command"
    /\ StartsWith(toolResult, "REJECTED: Shell command execution cancelled by user: ")
    /\ Len(effects) = 1
    /\ effects[1].call < callNo
    /\ effects[1].kind = "writeFile"

\* C10: once the user has chosen Always in a menu of the interactive handler,
\* every later confirmation request is answered Approved and shows no menu.
C10_AlwaysApprovesLater ==
    (handler = "interactive" /\ alwaysChosenAt > 0 /\ callNo > alwaysChosenAt) =>
        /\ prompts = 0
        /\ toolPc # "prompt"
        /\ outcome \in {"none", "approved"}
        /\ (BeforeConfirmation(curCall, canWrite, files).kind = "confirm") =>
                outcome = "approved"

\* Always was chosen in the menu of a file write; the shell command of the
\* next call is approved on a terminal without a menu
C10_Witness ==
    /\ handler = "interactive"
    /\ isTTY
    /\ alwaysChosenAt = 1
    /\ callNo = 2
    /\ curCall.tool = "execute__shell_command"
    /\ outcome = "approved"
    /\ prompts = 0
    /\ Len(effects) >= 1
    /\ effects[1].kind = "writeFile"

\* the confirmation of the current call is asked of the interactive handler
AsksInteractive ==
    /\ handler = "interactive"
    /\ callNo > 0
    /\ BeforeConfirmation(curCall, canWrite, files).kind = "confirm"
IsFileWrite == curCall.tool \in {"create__file", "edit__file"}
IsShellCommand == curCall.tool = "execute__shell_command"

\* C11: once the user has chosen Deny-all in a menu of the interactive handler,
\* every later confirmation request of either kind is answered Rejected and
\* shows no menu, with or without a terminal; the tool then does nothing.
C11_DenyAllRejectsLater ==
    (handler = "interactive" /\ denyChosenAt > 0 /\ callNo > denyChosenAt) =>
        /\ prompts = 0
        /\ toolPc # "prompt"
        /\ outcome \in {"none", "rejected"}
        /\ EffectsOfCall(callNo) = {}
        /\ AsksInteractive => (outcome = "rejected" /\ toolPc = "done")

\* Deny-all was chosen in the first call; the file write of the second call,
\* made without a terminal, is rejected without a menu
C11_Witness ==
    /\ handler = "interactive"
    /\ denyChosenAt = 1
    /\ callNo = 2
    /\ ~isTTY
    /\ IsFileWrite
    /\ outcome = "rejected"
    /\ prompts = 0
    /\ StartsWith(toolResult, "REJECTED: File creation cancelled by user for '")

\* C12: in an interactive file-write confirmation the third invalid input in
\* a row ends the confirmation with Rejected: no menu is open after it, so
\* invalid inputs alone never bring a fourth menu.
C12_ThirdInvalidInputRejects ==
    (handler = "interactive" /\ IsFileWrite) =>
        /\ invalidRun <= 3
        /\ toolPc = "prompt" => invalidRun < 3
        /\ invalidRun = 3 => (toolPc = "done" /\ outcome = "rejected")
        /\ (toolPc = "prompt" /\ prompts = invalidRun + 1) => prompts <= 3

\* three invalid inputs at three menus of one file-write confirmation: rejected
C12_Witness ==
    /\ handler = "interactive"
    /\ IsFileWrite
    /\ invalidRun = 3
    /\ prompts = 3
    /\ toolPc = "done"
    /\ outcome = "rejected"
    /\ EffectsOfCall(callNo) = {}

\* C13: when invalid inputs force a Rejected outcome the invalid-input counter
\* is back at zero, so a file-write confirmation is only ever rejected for
\* invalid input after three of them in a row.
C13_CounterResetOnForcedRejection ==
    (handler = "interactive" /\ IsFileWrite /\ toolPc = "done"
        /\ outcome = "rejected" /\ lastChoice = NullChoice) =>
        /\ consecutiveNulls = 0
        /\ invalidRun = 3

\* C14: right after a valid menu input the invalid-input counter is zero, in
\* a file-write confirmation and in a shell-command confirmation.
C14_ValidInputResetsCounter ==
    (handler = "interactive" /\ lastChoice \in Choices) => consecutiveNulls = 0

\* C15: in an interactive shell-command confirmation the third invalid input
\* in a row ends the confirmation with Rejected.
C15_ShellThirdInvalidInputRejects ==
    (handler = "interactive" /\ IsShellCommand) =>
        /\ invalidRun <= 3
        /\ invalidRun = 3 => (toolPc = "done" /\ outcome = "rejected")

\* C16: a confirmation request of either kind made of the interactive handler
\* with neither sticky flag set and without a terminal is answered Approved,
\* shows no menu and leaves the flags and the counter as they were.
C16_NoTerminalApproves ==
    [][(/\ handler = "interactive"
        /\ ~alwaysApprove
        /\ ~alwaysDeny
        /\ callNo' = callNo + 1
        /\ ~isTTY'
        /\ BeforeConfirmation(curCall', canWrite, files).kind = "confirm")
       => (/\ outcome' = "approved"
           /\ toolPc' = "approved"
           /\ prompts' = 0
           /\ alwaysApprove' = alwaysApprove
           /\ alwaysDeny' = alwaysDeny
           /\ consecutiveNulls' = consecutiveNulls)]_vars

\* a shell command approved without a terminal and without a menu, while the
\* counter still holds what an earlier confirmation left in it
C16_Witness ==
    /\ handler = "interactive"
    /\ ~isTTY
    /\ ~alwaysApprove
    /\ ~alwaysDeny
    /\ consecutiveNulls > 0
    /\ IsShellCommand
    /\ outcome = "approved"
    /\ prompts = 0
    /\ toolPc = "approved"

\* C17: in an interactive file-write confirmation View-full-diff and Help
\* produce no outcome and bring a new menu; Escalate produces the viewer's
\* verdict when it reports Approved or Rejected, and produces no outcome and
\* brings a new menu when the viewer is not found, not available or fails.
C17_ViewHelpEscalate ==
    (handler = "interactive" /\ IsFileWrite) =>
        /\ lastChoice \in {"VIEW", "HELP"} =>
                (toolPc = "prompt" /\ outcome = "none" /\ prompts >= 2)
        /\ (lastChoice = "IDE" /\ lastIde = "APPROVED") =>
                (outcome = "approved" /\ toolPc \in {"approved", "done"})
        /\ (lastChoice = "IDE" /\ lastIde = "REJECTED") =>
                (outcome = "rejected" /\ toolPc = "done" /\ EffectsOfCall(callNo) = {})
        /\ (lastChoice = "IDE" /\ lastIde \in {"notFound", "IDE_NOT_AVAILABLE"}) =>
                (toolPc = "prompt" /\ outcome = "none" /\ prompts >= 2)

\* after a look at the full diff and an escalation that found no viewer, a
\* second escalation is approved in the viewer and the file is written
C17_Witness ==
    /\ handler = "interactive"
    /\ IsFileWrite
    /\ lastChoice = "IDE"
    /\ lastIde = "APPROVED"
    /\ prompts = 3
    /\ outcome = "approved"
    /\ toolPc = "done"
    /\ EffectsOfCall(callNo) # {}

(***************************************************************************)
(* Claims about DiffViewer (checked under SpecDiff)                        *)
(***************************************************************************)
Positions(ds, types) == {n \in 1..Len(ds) : ds[n].type \in types}
ContentsIn(ds) == [n \in 1..Len(ds) |-> ds[n].content]
\* walking a diff: Context lines are kept, Added lines inserted, Removed dropped
WalkDiff(ds) == ContentsIn(SelectSeq(ds, LAMBDA d : d.type \in {"context", "added"}))
\* the number of lines of a text: one more than its newlines
LineCount(text) == Cardinality({n \in 1..Len(text) : text[n] = "\n"}) + 1
NonEmptyText(content) == content.present /\ Len(content.val) > 0
Smaller(x, y) == IF x < y THEN x ELSE y
DiffComputed == diffPc \in {"diffed", "stats"} /\ ~diffLoops
StatsOfTexts == diffPc = "stats" /\ NonEmptyText(oldContent) /\ NonEmptyText(newContent)

\* C18: walking computeDiff(A, B) in emitted order, keeping Context lines,
\* dropping Removed lines and inserting Added lines, gives B.
C18_RoundTrip == DiffComputed => WalkDiff(diffLines) = newLines

\* C19: for non-empty texts A and B computeStats gives
\* (additions + modifications) - (deletions + modifications) = lines(B) - lines(A).
C19_StatsBalance ==
    StatsOfTexts =>
        (stats.additions + stats.modifications) - (stats.deletions + stats.modifications)
            = LineCount(newContent.val) - LineCount(oldContent.val)

\* two texts of different numbers of lines whose diff has lines of all three
\* kinds
C19_Witness ==
    /\ StatsOfTexts
    /\ LineCount(newContent.val) = 3
    /\ LineCount(oldContent.val) = 2
    /\ Positions(diffLines, {"added"}) # {}
    /\ Positions(diffLines, {"removed"}) # {}
    /\ Positions(diffLines, {"context"}) # {}
    /\ stats.additions = 1
    /\ stats.modifications = 1

\* C20: computeStats pairs additions with deletions: modifications is the
\* smaller of the numbers of Added and of Removed lines of computeDiff, both
\* counts are reduced by it, so one of additions and deletions is zero; a
\* three-line text with one line replaced gives {0, 0, 1}.
C20_StatsPairing ==
    StatsOfTexts =>
        LET added == Cardinality(Positions(diffLines, {"added"}))
            removed == Cardinality(Positions(diffLines, {"removed"}))
        IN /\ stats.modifications = Smaller(added, removed)
           /\ stats.additions = added - Smaller(added, removed)
           /\ stats.deletions = removed - Smaller(added, removed)
           /\ stats.additions = 0 \/ stats.deletions = 0
           /\ (/\ Len(oldLines) = 3
               /\ Len(newLines) = 3
               /\ Cardinality({n \in 1..3 : oldLines[n] # newLines[n]}) = 1)
              => stats = [additions |-> 0, deletions |-> 0, modifications |-> 1]

\* the middle line of a three-line text replaced
C20_Witness ==
    /\ StatsOfTexts
    /\ Len(oldLines) = 3
    /\ Len(newLines) = 3
    /\ oldLines[1] = newLines[1]
    /\ oldLines[2] # newLines[2]
    /\ oldLines[3] = newLines[3]
    /\ oldLines[1] # oldLines[3]
    /\ stats = [additions |-> 0, deletions |-> 0, modifications |-> 1]
RECURSIVE IsSubsequenceFrom(_, _, _)
IsSubsequenceFrom(s, t, n) ==
    IF Len(s) = 0 THEN TRUE
    ELSE IF n > Len(t) THEN FALSE
    ELSE IF s[1] = t[n] THEN IsSubsequenceFrom(Tail(s), t, n + 1)
    ELSE IsSubsequenceFrom(s, t, n + 1)
IsSubsequence(s, t) == IsSubsequenceFrom(s, t, 1)
\* every sequence of lines that could be a common subsequence of a and b
CandidateSubsequences(a, b) ==
    UNION {[1..n -> {a[m] : m \in 1..Len(a)}] : n \in 0..Smaller(Len(a), Len(b))}

\* C22: computeLCS(a, b) is a subsequence of a and of b, and no common
\* subsequence of a and b is longer.
C22_LongestCommonSubsequence ==
    DiffComputed =>
        /\ IsSubsequence(lcsLines, oldLines)
        /\ IsSubsequence(lcsLines, newLines)
        /\ \A c \in CandidateSubsequences(oldLines, newLines) :
                (IsSubsequence(c, oldLines) /\ IsSubsequence(c, newLines))
                    => Len(c) <= Len(lcsLines)

\* two different sequences with a repeated line and an LCS of two lines
C22_Witness ==
    /\ DiffComputed
    /\ Len(oldLines) = 3
    /\ Len(newLines) = 3
    /\ oldLines # newLines
    /\ oldLines[1] = oldLines[3]
    /\ Len(lcsLines) = 2
    /\ lcsLines[1] # lcsLines[2]

\* the length of an LCS of the first i lines of a and the first j lines of b
RECURSIVE LcsLength(_, _, _, _)
LcsLength(a, b, i, j) ==
    IF i = 0 \/ j = 0 THEN 0
    ELSE IF a[i] = b[j] THEN LcsLength(a, b, i - 1, j - 1) + 1
    ELSE IF LcsLength(a, b, i - 1, j) >= LcsLength(a, b, i, j - 1)
         THEN LcsLength(a, b, i - 1, j)
         ELSE LcsLength(a, b, i, j - 1)

\* the LCS a backtrack from (i, j) yields when, the lines differing, it moves
\* the cursor over a if the score there is higher (or, tieToFirst, as high)
RECURSIVE BacktrackFrom(_, _, _, _, _)
BacktrackFrom(a, b, i, j, tieToFirst) ==
    IF i = 0 \/ j = 0 THEN <<>>
    ELSE IF a[i] = b[j] THEN Append(BacktrackFrom(a, b, i - 1, j - 1, tieToFirst), a[i])
    ELSE IF \/ LcsLength(a, b, i - 1, j) > LcsLength(a, b, i, j - 1)
            \/ tieToFirst /\ LcsLength(a, b, i - 1, j) = LcsLength(a, b, i, j - 1)
         THEN BacktrackFrom(a, b, i - 1, j, tieToFirst)
         ELSE BacktrackFrom(a, b, i, j - 1, tieToFirst)

\* C23 as stated: on equal scores the backtrack of computeLCS moves the
\* cursor over the first sequence.
C23_TieAdvancesFirst ==
    DiffComputed =>
        lcsLines = BacktrackFrom(oldLines, newLines, Len(oldLines), Len(newLines), TRUE)

\* C23 as the code has it: on equal scores the backtrack of computeLCS moves
\* the cursor over the second sequence.
C23_TieAdvancesSecond ==
    DiffComputed =>
        lcsLines = BacktrackFrom(oldLines, newLines, Len(oldLines), Len(newLines), FALSE)

\* a pair of sequences for which the two ways of breaking the tie differ
C23_Witness ==
    /\ DiffComputed
    /\ Len(oldLines) = 2
    /\ Len(newLines) = 2
    /\ oldLines[1] = newLines[2]
    /\ oldLines[2] = newLines[1]
    /\ lcsLines = <<oldLines[2]>>
    /\ lcsLines # BacktrackFrom(oldLines, newLines, 2, 2, TRUE)

(***************************************************************************)
(* Claims about formatUnifiedDiff (checked under SpecFormat)               *)
(***************************************************************************)
Changed(chunk) == {n \in 1..Len(chunk) : chunk[n][1] \in {"+", "-"}}
FirstChanged(chunk) == CHOOSE n \in Changed(chunk) : \A m \in Changed(chunk) : n <= m
LastChanged(chunk) == CHOOSE n \in Changed(chunk) : \A m \in Changed(chunk) : n >= m

\* C24: every hunk of formatUnifiedDiff has a changed line, at most
\* contextLines Context lines before its first changed line and at most
\* contextLines Context lines after its last changed line.
C24_HunkContextBound ==
    fmtPc = "formatted" =>
        \A h \in 1..Len(chunks) :
            /\ Changed(chunks[h]) # {}
            /\ FirstChanged(chunks[h]) - 1 <= contextLines
            /\ Len(chunks[h]) - LastChanged(chunks[h]) <= contextLines

(***************************************************************************)
(* Claims about tool discovery, the adapters and the agent's tool table    *)
(* (checked under SpecMcp)                                                 *)
(***************************************************************************)
\* the kind of an answer to tools/call
AnswerCase(resp) ==
    IF resp = NoAnswer THEN "none"
    ELSE IF resp.transport # "ok" THEN "transport"
    ELSE IF ~resp.hasData THEN "noBody"
    ELSE IF resp.hasError THEN "rpcError"
    ELSE IF resp.result.kind = "undefined" THEN "noResult"
    ELSE IF resp.result.kind = "null" THEN "nullResult"
    ELSE IF resp.result.isError THEN "isError"
    ELSE IF resp.result.content.kind = "undefined" \/ Len(resp.result.content.items) = 0
         THEN "noContent"
    ELSE IF \E i \in DOMAIN resp.result.content.items : resp.result.content.items[i].isNull
         THEN "nullItem"
    ELSE "content"

\* a stage of the discovery failed: network error, HTTP error, JSON-RPC error,
\* missing result, or a result that is not what the method returns
MalformedResult(method, result) ==
    \/ result.kind # "object"
    \/ method = "initialize" /\ ~result.serverInfo
    \/ method = "tools/list" /\ result.tools.kind # "array"
    \/ method = "tools/list" /\ \E i \in DOMAIN result.tools.items : result.tools.items[i].isNull

StageFails(method, resp) ==
    \/ resp.transport # "ok"
    \/ ~resp.hasData
    \/ resp.hasError
    \/ MalformedResult(method, resp.result)

DiscoveryReturned == mcpPc \in {"returned", "ready", "calling"}

ProbeFailed == probe \in ProbeOutcomes \ {"status200"}

StageFailed ==
    \/ ProbeFailed
    \/ initAnswer # NoAnswer /\ StageFails("initialize", initAnswer)
    \/ listAnswer # NoAnswer /\ StageFails("tools/list", listAnswer)

\* the initialize request was answered with a result
HandshakeDone ==
    /\ initAnswer.transport = "ok"
    /\ initAnswer.hasData
    /\ ~initAnswer.hasError
    /\ initAnswer.result.kind # "undefined"

ExecCase == AnswerCase(callAnswer)

\* C25: discoverTools is fail-soft: whatever the liveness probe, the
\* initialize handshake and the tools/list call end with (network error, HTTP
\* error, JSON-RPC error, missing result, malformed result) it returns a list
\* and never raises, and the list is empty whenever a stage failed.
C25_FailSoft ==
    /\ ~discoverRaised
    /\ (DiscoveryReturned /\ StageFailed) => discovered = <<>>

\* C26: the liveness probe is consulted first: no JSON-RPC request is sent
\* before it settles, and when it fails (network error, timeout, or a status
\* other than 200) no initialize and no tools/list request is ever sent and
\* the result is the empty list.
C26_ProbeFirst ==
    /\ mcpPc \in {"start", "probing"} => sent = <<>>
    /\ ProbeFailed => (sent = <<>> /\ discovered = <<>> /\ DiscoveryReturned)

C26_Witness == probe = "status204" /\ mcpPc = "ready"

\* C27: on the client, no tools/list and no tools/call request is sent before
\* an initialize request was sent and answered with a result, in discoverTools
\* and in the later calls made through the adapters.
C27_InitializeFirst ==
    \A i \in DOMAIN sent :
        sent[i].method # "initialize" =>
            /\ HandshakeDone
            /\ \E j \in 1..(i - 1) : sent[j].method = "initialize"

C27_Witness ==
    /\ \E i \in DOMAIN sent : sent[i].method = "tools/list"
    /\ \E i \in DOMAIN sent : sent[i].method = "tools/call"

\* C28: every JSON-RPC request of one client carries an integer id strictly
\* greater than the ids of all requests the client built before (the first is
\* 1), also after failed requests and across the adapters sharing the client.
C28_IdsIncrease ==
    \A i \in DOMAIN sent :
        /\ sent[i].id \in Nat
        /\ i = 1 => sent[i].id = 1
        /\ \A j \in 1..(i - 1) : sent[j].id < sent[i].id

C28_Witness ==
    /\ Len(sent) = 4
    /\ sent[3].method = "tools/call"
    /\ sent[4].method = "tools/call"
    /\ sent[3].name # sent[4].name
    /\ ExecCase = "transport"

\* C29: McpToolAdapter.execute never raises: a result flagged isError, a
\* JSON-RPC error, a transport failure and a result without content each
\* yield a text, which in the first three cases starts with "ERROR: "; the
\* args are passed to tools/call unchanged under the adapter's own name.
C29_ExecuteNeverRaises ==
    /\ ~execRaised
    /\ ExecCase # "none" => Len(execResult) > 0
    /\ ExecCase \in {"isError", "rpcError", "transport"} => StartsWith(execResult, "ERROR: ")
    /\ mcpPc = "calling" =>
          /\ \E i \in DOMAIN discovered : discovered[i] = execName
          /\ sent[Len(sent)] = [id |-> requestId, method |-> "tools/call",
                                name |-> execName, args |-> execArgs]

C29_Witness ==
    /\ mcpPc = "ready"
    /\ ExecCase = "isError"
    /\ execArgs = "args2"
    /\ StartsWith(execResult, "ERROR: ")

\* C30: tool names are unique across the native, adapted and delegate tools
\* of an agent: no two tools offered to the completion service share a name,
\* and every tool handed to the constructor is the one a lookup of its own
\* name resolves to.
AgentConstructed == mcpPc \in {"ready", "calling"}

C30_ToolNamesUnique ==
    AgentConstructed =>
        /\ \A i, j \in DOMAIN toolMap :
              i # j => agentTools[OfferedTools(toolMap)[i]] # agentTools[OfferedTools(toolMap)[j]]
        /\ \A i \in DOMAIN agentTools : MapGet(toolMap, agentTools[i]) = i

(***************************************************************************)
(* Claims about the tools' boundary (checked under SpecTools)              *)
(***************************************************************************)
\* C31: every tool's execute returns a text and never raises past its own
\* boundary, for every argument payload the model can send, payloads with
\* missing fields included; failures are returned as textual error results.
C31_ExecuteReturnsText ==
    /\ ~toolRaised
    /\ toolPc = "done" => Len(toolResult) > 0

\* the arguments of call c that the validation rules reject
BadText(t) == ~t.present \/ \A i \in 1..Len(t.val) : t.val[i] = " "
BadPath(t) == BadText(t) \/ \E i \in 1..(Len(t.val) - 1) : t.val[i] = "." /\ t.val[i + 1] = "."
BadContent(t) == t.present /\ (t.val.length = 0 \/ t.val.length > 1000000)
BadTimeout(t) == t.present /\ (t.val <= 0 \/ t.val > 600)

InvalidArgs(c) ==
    IF c.tool = "execute__shell_command"
    THEN BadText(c.command) \/ BadTimeout(c.timeoutSeconds)
    ELSE BadPath(c.path) \/ BadContent(c.content)

\* C32: the native tools validate before side-effecting work begins: when
\* the path, content, command or timeout validation fails, the tool returns a
\* textual error and has neither asked the confirmation gate nor written a
\* file nor spawned a process.
C32_ValidateBeforeEffects ==
    (toolPc # "idle" /\ InvalidArgs(curCall)) =>
        /\ toolPc = "done"
        /\ ~toolRaised
        /\ StartsWith(toolResult, "ERROR: ")
        /\ outcome = "none"
        /\ prompts = 0
        /\ lastChoice = "none"
        /\ EffectsOfCall(callNo) = {}

C32_Witness ==
    /\ toolPc = "done"
    /\ curCall.tool = "execute__shell_command"
    /\ ~BadText(curCall.command)
    /\ curCall.timeoutSeconds = Given(MaxTimeoutSeconds + 1)
    /\ StartsWith(toolResult, "ERROR: ")
    /\ callNo = 2

(***************************************************************************)
(* Further claims about DiffViewer (checked under SpecDiff and SpecFormat) *)
(***************************************************************************)
LinesOfType(ds, types) == ContentsIn(SelectSeq(ds, LAMBDA d : d.type \in types))

\* C33: computeDiff(A, B) is minimal in size: it has exactly |LCS(A,B)|
\* Context lines, |A| - |LCS(A,B)| Removed lines and |B| - |LCS(A,B)| Added
\* lines, and its Context and Removed lines in emitted order are exactly A.
C33_MinimalEditSequence ==
    DiffComputed =>
        LET n == LcsLength(oldLines, newLines, Len(oldLines), Len(newLines)) IN
            /\ Len(LinesOfType(diffLines, {"context"})) = n
            /\ Len(LinesOfType(diffLines, {"removed"})) = Len(oldLines) - n
            /\ Len(LinesOfType(diffLines, {"added"})) = Len(newLines) - n
            /\ LinesOfType(diffLines, {"context", "removed"}) = oldLines

C33_Witness ==
    /\ DiffComputed
    /\ Len(oldLines) = 3
    /\ Len(newLines) = 3
    /\ Len(lcsLines) = 1
    /\ Len(diffLines) = 5

\* C37: computeDiff terminates for all line sequences A and B: every pass of
\* its main loop advances the cursor over A or the cursor over B, the branch
\* that removes lines up to the next LCS element is never entered with A
\* exhausted, and neither cursor passes the end of its sequence.
C37_ComputeDiffTerminates ==
    diffPc # "start" =>
        /\ ~diffLoops
        /\ diffPasses[Len(diffPasses)].branch = "exit"
        /\ \A p \in 1..(Len(diffPasses) - 1) :
              \/ diffPasses[p + 1].i > diffPasses[p].i
              \/ diffPasses[p + 1].j > diffPasses[p].j
        /\ \A p \in DOMAIN diffPasses :
              /\ diffPasses[p].i <= Len(oldLines)
              /\ diffPasses[p].j <= Len(newLines)
              /\ diffPasses[p].branch = "removeUpTo" => diffPasses[p].i < Len(oldLines)

C37_Witness ==
    /\ diffPc = "diffed"
    /\ Len(oldLines) = 3
    /\ Len(newLines) = 3
    /\ \E p \in DOMAIN diffPasses : diffPasses[p].branch = "removeUpTo"
    /\ \E p \in DOMAIN diffPasses : diffPasses[p].branch = "context"
    /\ \E p \in DOMAIN diffPasses : diffPasses[p].branch = "remaining"

(***************************************************************************)
(* Claims about the timeout of a shell command (checked under SpecShell)   *)
(***************************************************************************)
\* C34: a shell command that runs longer than its timeout is terminated and
\* execute eventually returns a TIMED OUT result: SIGTERM is sent at the
\* timeout and, if the process is still running 2 seconds later, SIGKILL is
\* sent, so the tool returns even when the process ignores SIGTERM.
C34_TimeoutTerminates ==
    timedOut ~> (shPc = "returned" /\ shResult.timedOut
                 /\ StartsWith(Tail(FormatResult(curCall, shResult)), "Status: TIMED OUT"))

(***************************************************************************)
(* Claims about the sticky flags of the interactive handler (checked under *)
(* SpecTools)                                                              *)
(***************************************************************************)
\* C35: the sticky flags change only through the Always and Deny-all
\* choices: every other choice, invalid input, the forced rejection and the
\* no-terminal path leave alwaysApprove and alwaysDeny unchanged, and a flag
\* that is set is never cleared.
C35_FlagsChangeOnlyByStickyChoices ==
    [][/\ alwaysApprove' # alwaysApprove => (alwaysApprove' /\ lastChoice' = "ALWAYS")
       /\ alwaysDeny' # alwaysDeny => (alwaysDeny' /\ lastChoice' = "DENY")]_vars

\* after Always was chosen for a shell command, a later call got its result
C35_Witness ==
    /\ handler = "interactive"
    /\ alwaysApprove
    /\ alwaysChosenAt = 1
    /\ callNo = 2
    /\ toolPc = "done"
    /\ effects # <<>>
    /\ effects[1].kind = "spawn"

\* C36: alwaysApprove and alwaysDeny are never both true: once either flag is
\* set no prompt is shown again, so the other can no longer be chosen.
C36_FlagsExclusive ==
    /\ ~(alwaysApprove /\ alwaysDeny)
    /\ (alwaysApprove \/ alwaysDeny) => toolPc # "prompt"
    /\ alwaysChosenAt = 0 \/ denyChosenAt = 0

\* Deny-all was chosen at the first call; the second call was answered
\* without a prompt
C36_Witness ==
    /\ handler = "interactive"
    /\ alwaysDeny
    /\ denyChosenAt = 1
    /\ callNo = 2
    /\ isTTY
    /\ outcome = "rejected"
    /\ prompts = 0

(***************************************************************************)
(* C38: when run fails on the iteration limit, the tool calls of the last  *)
(* (maxIterations-th) assistant response have all been dispatched and the  *)
(* conversation ends with that assistant message followed by one tool      *)
(* message per call, in order; no completion request was issued after the  *)
(* one that produced that response, so none carries those results.         *)
(***************************************************************************)
LastResponse == responses[Len(responses)]

C38_LastBatchExecutedAtLimit ==
    (pc = "failed" /\ runError = "MaxIterations") =>
        /\ Len(responses) = maxIterations
        /\ completions = maxIterations
        /\ CarriesToolCalls(LastResponse.tool_calls)
        /\ LET calls == LastResponse.tool_calls.calls
               p == Len(messages) - Len(calls)
           IN  /\ p >= 1
               /\ Conversation[p].role = "assistant"
               /\ Conversation[p].tool_calls.calls = calls
               /\ \A i \in 1..Len(calls) :
                     /\ Conversation[p + i].role = "tool"
                     /\ Conversation[p + i].tool_call_id = calls[i].id
                     /\ (calls[i].name \in ToolNames /\ calls[i].arguments \in ValidJson)
                           => calls[i].id \in executedIds \cup raisedIds

C38_Witness ==
    /\ pc = "failed"
    /\ runError = "MaxIterations"
    /\ Len(responses) = maxIterations
    /\ Len(LastResponse.tool_calls.calls) = 2
    /\ LastResponse.tool_calls.calls[2].id \in executedIds
    /\ Conversation[Len(messages)].role = "tool"
    /\ Conversation[Len(messages)].tool_call_id = LastResponse.tool_calls.calls[2].id

(***************************************************************************)
(* C39: run never resets the conversation.  Whenever run is called on an   *)
(* agent that has run before (or not), the completion request it issues    *)
(* carries every earlier message unchanged, followed by the new user       *)
(* message; this holds also after a run that failed on the iteration limit.*)
(***************************************************************************)
RunIsCalled == pc \in {"idle", "returned", "failed"} /\ pc' = "awaitCompletion"

C39_RunKeepsConversation ==
    [][RunIsCalled =>
          /\ Len(messages') = Len(messages) + 1
          /\ \A i \in 1..Len(messages) : Conversation'[i] = Conversation[i]
          /\ Conversation'[Len(messages')].role = "user"
          /\ completions' = 1]_vars

\* the second run has issued its request after a first run of an agent with
\* maxIterations = 1 executed a tool call and so failed on the limit
C39_Witness ==
    /\ maxIterations = 1
    /\ pc = "awaitCompletion"
    /\ completions = 1
    /\ Len(messages) = 5
    /\ Conversation[2].role = "user"
    /\ Conversation[3].role = "assistant"
    /\ Conversation[4].role = "tool"
    /\ Conversation[5].role = "user"

(***************************************************************************)
(* C40: formatUnifiedDiff loses no change.  The '+' and '-' lines of the   *)
(* hunks, read in output order, are exactly the Added and Removed lines of *)
(* the input in input order, each once and with its own prefix; and the    *)
(* output is the "(no changes)" sentinel exactly when the input has no     *)
(* Added or Removed line.                                                  *)
(***************************************************************************)
RECURSIVE Flatten(_)
Flatten(cs) == IF cs = <<>> THEN <<>> ELSE Head(cs) \o Flatten(Tail(cs))

IsChangedLine(d) == d.type \in {"added", "removed"}
IsMarkedLine(l) == l[1] \in {"+", "-"}

\* the Added and Removed lines of ds, in order, as the hunk lines they must become
ExpectedMarked(ds) ==
    LET cl == SelectSeq(ds, IsChangedLine)
    IN [n \in 1..Len(cl) |->
           <<IF cl[n].type = "added" THEN "+" ELSE "-">> \o cl[n].content]

C40_NoChangeLost ==
    fmtPc = "formatted" =>
        /\ SelectSeq(Flatten(chunks), IsMarkedLine) = ExpectedMarked(fmtLines)
        /\ (fmtText = <<"(no changes)">>) <=> (SelectSeq(fmtLines, IsChangedLine) = <<>>)

\* two hunks: a change, enough context to close the hunk, another change
C40_Witness ==
    /\ fmtPc = "formatted"
    /\ Len(chunks) = 2
    /\ Len(ExpectedMarked(fmtLines)) >= 3
    /\ \E n \in 1..Len(fmtLines) : fmtLines[n].type = "added"
    /\ \E n \in 1..Len(fmtLines) : fmtLines[n].type = "removed"
====
